---- MODULE Spec2Model ----
(***************************************************************************)
(* Model of the app (plugin) host of ignite-cli:                           *)
(*   ignite/services/app/plugin.go   newApp, Load, App.load, KillClient    *)
(*   ignite/services/app/cache.go    the reattachment cache                *)
(*                                                                         *)
(* An App instance is loaded in steps.  Every step that reads or writes    *)
(* something shared between host processes (the reattachment cache, an     *)
(* app subprocess) is one action, so that the interleavings of several     *)
(* host processes loading the same reference are explored.                 *)
(***************************************************************************)
EXTENDS Integers, Sequences, FiniteSets, TLC

(* ------------------------------------------------------------------ *)
(* Bounds                                                              *)
(* ------------------------------------------------------------------ *)
\* number of App instances (loaders) of one behaviour
NumInst == 2

\* longest reference handed to the path resolver, in characters
MaxRefLen == 11

\* number of hook and command descriptors the manifests declare in all,
\* and one more when commands are executed
MaxLinks == 2

\* number of calls that fail in the execution of one command
MaxFails == 2

Inst == 1..NumInst

(* ------------------------------------------------------------------ *)
(* App references.  A path is a sequence of characters.                *)
(* ------------------------------------------------------------------ *)
EmptyPath    == << >>
LocalApp     == <<"/", "a">>
LocalMissing == <<"/", "b">>
LocalFile    == <<"/", "f">>
BadRemote    == <<"h", "/", "r">>
RemoteApp    == <<"h", "/", "o", "/", "r">>

Paths      == {EmptyPath, LocalApp, LocalMissing, LocalFile, BadRemote, RemoteApp}
ValidPaths == {LocalApp, RemoteApp}

\* what os.Stat finds for the local references
LocalDirs  == {LocalApp}
LocalFiles == {LocalFile}

\* the nil error
NoError == "nil"

(* ------------------------------------------------------------------ *)
(* State                                                               *)
(* ------------------------------------------------------------------ *)
VARIABLES
    mode,        \* "procs": every instance lives in its own host process;
                 \* "Load": one host process runs Load(cfgs)
    appsDirOK,   \* AppsPath() succeeds (the apps directory is available)
    sharedHost,  \* Manifest.SharedHost declared by the app binary
    faults,      \* the collaborators (git, go build, rpc) may fail
    fsys,        \* the source tree and binary of every valid reference
    cfgs,        \* the configuration entries ([]appsconfig.App), by index
    app,         \* the App values
    pc,          \* position of every instance in newApp / load
    proc,        \* the subprocess launched by every instance
    cache,       \* the reattachment cache: reference -> descriptor (0: none)
    loaded,      \* Load's result slice under construction
    loadPc,      \* position of Load
    killed,      \* KillClient has been called on the instance
    calls,       \* number of fetch and build runs of every instance
    resolved,    \* the path resolver: its input and the App it returned
    tree,        \* the command tree: command path -> command
    link,        \* position and local variables of linkApps
    exec,        \* the execution of a command of the tree
    calling      \* the blocking calls of a load or a command, and its context

vars == <<mode, appsDirOK, sharedHost, faults, fsys, cfgs, app, pc, proc,
          cache, loaded, loadPc, killed, calls, resolved, tree, link, exec,
          calling>>

\* what the loader never writes
env == <<mode, appsDirOK, sharedHost, faults, cfgs, resolved, tree, link, exec,
         calling>>

(* ------------------------------------------------------------------ *)
(* hplugin.Client as used by App: how it was configured                *)
(* ------------------------------------------------------------------ *)
NoClient == [kind |-> "nil", target |-> 0, started |-> FALSE]

\* the zero value of App
ZeroApp == [Path         |-> EmptyPath,
            Error        |-> NoError,
            reference    |-> << >>,
            repoPath     |-> << >>,
            cloneURL     |-> << >>,
            cloneDir     |-> << >>,
            srcPath      |-> << >>,
            name         |-> << >>,
            client       |-> NoClient,
            Interface    |-> FALSE,
            manifest     |-> "nil",
            isHost       |-> FALSE,
            isSharedHost |-> FALSE]

(* ------------------------------------------------------------------ *)
(* strings helpers                                                     *)
(* ------------------------------------------------------------------ *)
\* strings.HasPrefix(s, "/")
HasSlashPrefix(s) == Len(s) > 0 /\ s[1] = "/"

\* strings.LastIndex(s, c): 0 when absent (Go: -1), else the 1-based index
LastIndex(s, c) ==
    LET idx == {k \in 1..Len(s) : s[k] = c}
    IN  IF idx = {} THEN 0 ELSE CHOOSE k \in idx : \A j \in idx : j <= k

\* len(strings.Split(s, "/"))
NumParts(s) == 1 + Cardinality({k \in 1..Len(s) : s[k] = "/"})

\* appsconfig.App.IsLocalPath
IsLocalPath(path) == HasSlashPrefix(path)

\* strings.Index(s, c): 0 when absent (Go: -1), else the 1-based index
Index(s, c) ==
    LET idx == {k \in 1..Len(s) : s[k] = c}
    IN  IF idx = {} THEN 0 ELSE CHOOSE k \in idx : \A j \in idx : k <= j

\* strings.Split(s, "/")
RECURSIVE Split(_)
Split(s) ==
    LET i == Index(s, "/")
    IN  IF i = 0 THEN <<s>>
        ELSE <<SubSeq(s, 1, i - 1)>> \o Split(SubSeq(s, i + 1, Len(s)))

\* a replacement that leaves the "/" in place
ReplaceNone(s) == s

\* strings.ReplaceAll(s, "/", "-")
ReplaceAll(s) == [k \in 1..Len(s) |-> IF s[k] = "/" THEN "-" ELSE s[k]]

\* strings.Join(elems, "/")
RECURSIVE JoinSlash(_)
JoinSlash(elems) ==
    IF Len(elems) = 0 THEN << >>
    ELSE IF Len(elems) = 1 THEN elems[1]
    ELSE elems[1] \o <<"/">> \o JoinSlash(Tail(elems))

\* path.Clean works on the elements of the path: empty and "." elements
\* are dropped, ".." removes the element before it
RECURSIVE CleanElems(_, _, _)
CleanElems(elems, out, rooted) ==
    IF Len(elems) = 0 THEN out
    ELSE LET e    == Head(elems)
             rest == Tail(elems)
         IN  IF e = << >> \/ e = <<".">> THEN CleanElems(rest, out, rooted)
             ELSE IF e = <<".", ".">>
                  THEN IF Len(out) > 0 /\ out[Len(out)] # <<".", ".">>
                           THEN CleanElems(rest, SubSeq(out, 1, Len(out) - 1), rooted)
                       ELSE IF ~rooted
                           THEN CleanElems(rest, Append(out, e), rooted)
                       ELSE CleanElems(rest, out, rooted)
             ELSE CleanElems(rest, Append(out, e), rooted)

\* path.Clean(p)
Clean(p) ==
    IF p = << >> THEN <<".">>
    ELSE LET rooted == HasSlashPrefix(p)
             body   == JoinSlash(CleanElems(Split(p), << >>, rooted))
         IN  IF rooted THEN <<"/">> \o body
             ELSE IF body = << >> THEN <<".">>
             ELSE body

\* path.Join(elems...): the non-empty elements joined by "/", cleaned
pathJoin(elems) ==
    LET nonEmpty == SelectSeq(elems, LAMBDA e : e # << >>)
    IN  IF Len(nonEmpty) = 0 THEN << >> ELSE Clean(JoinSlash(nonEmpty))

\* path.Base(p): the last element of p, trailing slashes removed
RECURSIVE TrimSlashes(_)
TrimSlashes(p) ==
    IF Len(p) > 0 /\ p[Len(p)] = "/" THEN TrimSlashes(SubSeq(p, 1, Len(p) - 1))
    ELSE p

pathBase(p) ==
    IF p = << >> THEN <<".">>
    ELSE LET t == TrimSlashes(p)
             b == SubSeq(t, LastIndex(t, "/") + 1, Len(t))
         IN  IF b = << >> THEN <<"/">> ELSE b

\* xurl.HTTPS(s): the address with the https scheme
HTTPS(s) == <<"https://">> \o s

(* ------------------------------------------------------------------ *)
(* newApp (plugin.go 127-191): resolution of a configuration entry.    *)
(* ------------------------------------------------------------------ *)
\* the directory the apps are cloned in (AppsPath)
AppsDir == <<"/", "d">>

\* os.Stat on a local reference: "dir", "file" or "absent"
osStat(appPath) ==
    IF appPath \in LocalDirs THEN "dir"
    ELSE IF appPath \in LocalFiles THEN "file"
    ELSE "absent"

\* a resolver that does not split the reference at "@"
RepoPartWhole(appPath) == appPath

\* the path part of a remote reference: the text before the last "@"
RepoPart(appPath) ==
    LET i == LastIndex(appPath, "@")
    IN  IF i # 0 THEN SubSeq(appPath, 1, i - 1) ELSE appPath

\* the reference part: the text after the last "@"
RefPart(appPath) ==
    LET i == LastIndex(appPath, "@")
    IN  IF i # 0 THEN SubSeq(appPath, i + 1, Len(appPath)) ELSE << >>

newAppError(appPath, st) ==
    IF appPath = EmptyPath THEN "missing app property path"
    ELSE IF HasSlashPrefix(appPath)
         THEN IF st = "absent"
                  THEN "local app path not found"
              ELSE IF st # "dir"
                  THEN "local app path is not a directory"
              ELSE NoError
    ELSE IF NumParts(RepoPart(appPath)) < 3
         THEN "is not a valid repository URL"
    ELSE NoError

\* the remote branch of newApp once the reference has its three parts
newAppRemote(p, appsDir, appPath) ==
    LET parts       == Split(appPath)
        repoPath    == pathJoin(SubSeq(parts, 1, 3))
        ref         == ReplaceAll(p.reference)
        cloneDir    == IF Len(p.reference) > 0
                       THEN pathJoin(<<appsDir, repoPath \o <<"-">> \o ref>>)
                       ELSE pathJoin(<<appsDir, repoPath>>)
        repoSubPath == pathJoin(SubSeq(parts, 4, Len(parts)))
    IN  [p EXCEPT !.repoPath = IF Len(p.reference) > 0
                                THEN repoPath \o <<"@">> \o p.reference
                                ELSE repoPath,
                  !.cloneURL = HTTPS(repoPath),
                  !.cloneDir = cloneDir,
                  !.srcPath  = pathJoin(<<cloneDir, repoSubPath>>),
                  !.name     = pathBase(appPath)]

\* st is what os.Stat finds at cp
newApp(appsDir, cp, st) ==
    LET p == [ZeroApp EXCEPT !.Path = cp, !.Error = newAppError(cp, st)]
    IN  IF cp = EmptyPath THEN p
        ELSE IF HasSlashPrefix(cp)
             THEN IF p.Error # NoError THEN p
                  ELSE [p EXCEPT !.srcPath = cp, !.name = pathBase(cp)]
        ELSE LET q == [p EXCEPT !.reference = RefPart(cp)]
             IN  IF q.Error # NoError THEN q
                 ELSE newAppRemote(q, appsDir, RepoPart(cp))

(* ------------------------------------------------------------------ *)
(* The command tree (cobra) the apps are grafted on.  A node is named  *)
(* by its command path: the names from the root down to it.            *)
(* ------------------------------------------------------------------ *)
\* the name of the root command
RootName == "ignite"
RootPath == <<RootName>>

\* findCommandByPath found nothing
NoNode == << >>

\* A handler (PreRunE, RunE, PostRunE) is the sequence of its layers, the
\* innermost first: the handler the command had, if any, and then one layer
\* for every wrapper installed around it.  The empty sequence is nil.
NilHandler == << >>
Layer(kind, i, hook) == [kind |-> kind, app |-> i, hook |-> hook]
LegacyLayer == Layer("legacy", 0, "")

\* a command that only dispatches to its children; owner, top and kids
\* record where a grafted command comes from: the app, the number of the
\* top-level descriptor and the names of the children its descriptor declares
DispatchNode(use) ==
    [Use |-> use, owner |-> 0, top |-> 0, kids |-> << >>, Run |-> FALSE,
     PreRunE |-> NilHandler, RunE |-> NilHandler, PostRunE |-> NilHandler]

\* a legacy command with a pre-phase, a body and a post-phase; the body is
\* registered as a plain handler (form "Run") or as an error-returning one
LegacyLeaf(use, form) ==
    IF form = "Run"
    THEN [DispatchNode(use) EXCEPT !.PreRunE = <<LegacyLayer>>,
                                   !.Run = TRUE,
                                   !.PostRunE = <<LegacyLayer>>]
    ELSE [DispatchNode(use) EXCEPT !.PreRunE = <<LegacyLayer>>,
                                   !.RunE = <<LegacyLayer>>,
                                   !.PostRunE = <<LegacyLayer>>]

ScaffoldPath == <<RootName, "scaffold">>
ChainPath    == <<RootName, "scaffold", "chain">>

\* the legacy commands: ignite, ignite scaffold, ignite scaffold chain
LegacyTree(form) ==
    [p \in {RootPath, ScaffoldPath, ChainPath} |->
        IF p = RootPath THEN DispatchNode(<<RootName>>)
        ELSE IF p = ScaffoldPath THEN DispatchNode(<<"scaffold">>)
        ELSE LegacyLeaf(<<"chain">>, form)]

\* cobra.Command.Runnable
Runnable(n) == n.Run \/ n.RunE # NilHandler

\* cobra.Command.Commands: the paths of the direct children of a node
Commands(t, p) ==
    {q \in DOMAIN t : Len(q) = Len(p) + 1 /\ SubSeq(q, 1, Len(p)) = p}

\* cobra.Command.Name: the first word of Use
Name(n) == n.Use[1]

\* p is q or an ancestor of q
IsPrefix(p, q) == Len(p) <= Len(q) /\ SubSeq(q, 1, Len(p)) = p

\* a search that falls back on the command it started from
findCommandOrStart(t, cmd, cmdPath) ==
    IF cmdPath \in DOMAIN t /\ IsPrefix(cmd, cmdPath) THEN cmdPath ELSE cmd

\* findCommandByPath(cmd, cmdPath): the node of the subtree of cmd whose
\* command path is cmdPath
findCommandByPath(t, cmd, cmdPath) ==
    IF cmdPath \in DOMAIN t /\ IsPrefix(cmd, cmdPath) THEN cmdPath ELSE NoNode

\* Command.Path and Hook.CommandPath: the attachment path, the root when it
\* is empty, with the root's name put in front when it is missing
commandPath(path) ==
    IF path = << >> THEN RootPath
    ELSE IF path[1] # RootName THEN RootPath \o path
    ELSE path

(* ------------------------------------------------------------------ *)
(* Manifests.  The descriptors an app may declare.                     *)
(* ------------------------------------------------------------------ *)
CmdDesc(use, place, cmds, flagsOK) ==
    [Use |-> use, PlaceCommandUnder |-> place, Commands |-> cmds,
     flagsOK |-> flagsOK]

Leaf(name) == CmdDesc(<<name>>, << >>, << >>, TRUE)

\* the lists of child commands of a descriptor
ChildLists ==
    { << >>,
      <<Leaf("bar"), CmdDesc(<<"scaffold">>, << >>, <<Leaf("baz")>>, TRUE)>>,
      <<Leaf("bar"), Leaf("bar")>>,
      <<CmdDesc(<<"bar">>, << >>, << >>, FALSE)>> }

\* the Use of a top-level descriptor
TopUses == {<<"foo">>, <<"scaffold", "[args]">>, <<"Scaffold">>}

\* the attachment paths a descriptor may name
Places == {<< >>, <<"scaffold">>, ChainPath, <<RootName, "unknown">>,
           <<RootName, "foo">>}

CmdDescs ==
    {CmdDesc(u, pl, ch, TRUE) : u \in TopUses, pl \in Places, ch \in ChildLists}

HookDesc(name, place) == [Name |-> name, PlaceHookOn |-> place]

HookDescs ==
    {HookDesc(n, pl) : n \in {"h1", "h2"},
                       pl \in {ChainPath, <<"scaffold">>, <<RootName, "unknown">>,
                               <<RootName, "foo">>}}

\* linkApps is running, by itself ("link") or before a command is executed
Linking == mode \in {"link", "exec"}

\* the descriptors still to come
MoreLinks == link.n < (IF mode = "exec" THEN MaxLinks + 1 ELSE MaxLinks)

\* the descriptors the manifests are made of
OfferedCmds ==
    IF mode = "exec"
    THEN {CmdDesc(<<"foo">>, << >>, ch, TRUE) : ch \in ChildLists}
    ELSE CmdDescs

OfferedHooks ==
    IF mode = "exec"
    THEN {HookDesc(n, pl) : n \in {"h1", "h2"},
                            pl \in {ChainPath, <<RootName, "foo">>}}
    ELSE HookDescs

(* ------------------------------------------------------------------ *)
(* linkAppHook (plugin.go 696-806)                                     *)
(* ------------------------------------------------------------------ *)
\* a hook linker that wraps whatever command it finds
hookTargetAny(n) == TRUE

\* 703: cmd.Runnable()
hookTarget(n) == Runnable(n)

\* a hook linker that passes over a hook whose command is not in the tree
linkAppHookSilent(t, i, hook) ==
    LET cmdPath == commandPath(hook.PlaceHookOn)
        cmd     == findCommandByPath(t, RootPath, cmdPath)
    IN  IF cmd = NoNode \/ ~hookTarget(t[cmd])
            THEN [tree |-> t, Error |-> "", named |-> << >>]
        ELSE [tree |-> [t EXCEPT
                  ![cmd].PreRunE  = Append(@, Layer("hook", i, hook.Name)),
                  ![cmd].RunE     = Append(@, Layer("hook", i, hook.Name)),
                  ![cmd].PostRunE = Append(@, Layer("hook", i, hook.Name))],
              Error |-> "", named |-> << >>]

\* the result of linkAppHook(rootCmd, p, hook): the tree, the new Error of p
\* ("" when it is not assigned) and the path the Error names
linkAppHook(t, i, hook) ==
    LET cmdPath == commandPath(hook.PlaceHookOn)
        cmd     == findCommandByPath(t, RootPath, cmdPath)
    IN  IF cmd = NoNode
            THEN [tree |-> t, Error |-> "unable to find command path",
                  named |-> cmdPath]
        ELSE IF ~hookTarget(t[cmd])
            THEN [tree |-> t,
                  Error |-> "can't attach app hook to non executable command",
                  named |-> hook.PlaceHookOn]
        ELSE [tree |-> [t EXCEPT
                  ![cmd].PreRunE  = Append(@, Layer("hook", i, hook.Name)),
                  ![cmd].RunE     = Append(@, Layer("hook", i, hook.Name)),
                  ![cmd].PostRunE = Append(@, Layer("hook", i, hook.Name))],
              Error |-> "", named |-> << >>]

(* ------------------------------------------------------------------ *)
(* linkAppCmd (plugin.go 822-896)                                      *)
(* ------------------------------------------------------------------ *)
\* a command that is given no RunE
newCmdNoRunE(i, top, appCmd) ==
    [DispatchNode(appCmd.Use) EXCEPT
        !.owner = i,
        !.top   = top,
        !.kids  = [k \in 1..Len(appCmd.Commands) |-> appCmd.Commands[k].Use[1]]]

\* the node Command.ToCobraCommand returns, with the RunE of 858-886 when
\* the descriptor has no child
newCmd(i, top, appCmd) ==
    [DispatchNode(appCmd.Use) EXCEPT
        !.owner = i,
        !.top   = top,
        !.kids  = [k \in 1..Len(appCmd.Commands) |-> appCmd.Commands[k].Use[1]],
        !.RunE  = IF Len(appCmd.Commands) = 0
                  THEN <<Layer("exec", i, "")>> ELSE NilHandler]

\* a linker that attaches under any command it finds
attachTargetAny(n) == TRUE

\* 829: cmd.Runnable() forbids the attachment
attachTarget(n) == ~Runnable(n)

\* a linker that never sees a collision
nameExistsNever(t, cmd, appCmd) == FALSE

\* a linker that compares the whole Use
nameExistsUse(t, cmd, appCmd) ==
    \E c \in Commands(t, cmd) : t[c].Use = appCmd.Use

\* 837-843: a direct child of cmd has the name of the descriptor
nameExists(t, cmd, appCmd) ==
    \E c \in Commands(t, cmd) : Name(t[c]) = appCmd.Use[1]

\* the result of linkAppCmd(rootCmd, p, appCmd): the tree, the new Error of
\* p ("" when it is not assigned), the path or name the Error names, and
\* the calls of 888-895 still to make, in order
linkAppCmd(t, rootCmd, i, top, appCmd) ==
    LET cmdPath == commandPath(appCmd.PlaceCommandUnder)
        cmd     == findCommandByPath(t, rootCmd, cmdPath)
        newPath == cmd \o <<appCmd.Use[1]>>
    IN  IF cmd = NoNode
            THEN [tree |-> t, Error |-> "unable to find command path",
                  named |-> cmdPath, calls |-> << >>]
        ELSE IF ~attachTarget(t[cmd])
            THEN [tree |-> t,
                  Error |-> "can't attach app command to runnable command",
                  named |-> cmd, calls |-> << >>]
        ELSE IF nameExists(t, cmd, appCmd)
            THEN [tree |-> t, Error |-> "app command already exists",
                  named |-> <<appCmd.Use[1]>>, calls |-> << >>]
        ELSE IF ~appCmd.flagsOK
            THEN [tree |-> t, Error |-> "ToCobraCommand", named |-> << >>,
                  calls |-> << >>]
        ELSE [tree  |-> [p \in DOMAIN t \cup {newPath} |->
                            IF p = newPath THEN newCmd(i, top, appCmd) ELSE t[p]],
              Error |-> "", named |-> << >>,
              calls |-> [k \in 1..Len(appCmd.Commands) |->
                            [rootCmd |-> newPath, top |-> top,
                             appCmd  |-> [appCmd.Commands[k] EXCEPT
                                            !.PlaceCommandUnder = newPath]]]]

(* ------------------------------------------------------------------ *)
(* linkApps (plugin.go 631-677), one step for every call it makes.     *)
(* The manifest of an app is disclosed one descriptor at a time.       *)
(* ------------------------------------------------------------------ *)
\* linkApps has not been called.  msg is what the error linkApps returns
\* names; global tells what the package variable apps holds when UnloadApps
\* reads it: the list linkApps was given, or another list; asked holds the
\* apps linkApps has called Manifest on
NoLink == [pc |-> "idle", i |-> 1, n |-> 0, stack |-> << >>,
           linkErrors |-> << >>, ret |-> "none", named |-> << >>,
           msg |-> << >>, global |-> "none", asked |-> {}]

\* no blocking call is being followed
NoCalling == [todo |-> << >>, busy |-> FALSE, ctx |-> "live", log |-> << >>,
              of |-> "none"]

\* no command has been executed
NoExec == [done |-> FALSE, cmd |-> NoNode, args |-> << >>, fails |-> {},
           chainErr |-> NoError, cancel |-> "none", trace |-> << >>,
           ret |-> NoError]

(* ------------------------------------------------------------------ *)
(* The reattachment cache (cache.go)                                   *)
(* ------------------------------------------------------------------ *)
\* newCache succeeds iff AppsPath() does
newCacheOK == appsDirOK

\* a lookup that never finds the entry
checkConfCacheNever(appPath) == FALSE

\* a lookup that drops the entry of a dead subprocess
checkConfCacheLive(appPath) ==
    IF appPath = EmptyPath THEN FALSE
    ELSE IF ~newCacheOK THEN FALSE
    ELSE cache[appPath] # 0 /\ proc[cache[appPath]] = "alive"

checkConfCache(appPath) ==
    IF appPath = EmptyPath THEN FALSE
    ELSE IF ~newCacheOK THEN FALSE
    ELSE cache[appPath] # 0

\* error of readConfigCache; the value read is cache[appPath]
readConfigCacheErr(appPath) ==
    IF appPath = EmptyPath THEN "provided path is invalid"
    ELSE IF ~newCacheOK THEN "apps path"
    ELSE IF cache[appPath] = 0 THEN "cache: entry not found"
    ELSE NoError

\* error of writeConfigCache(appPath, conf); conf = 0 stands for a nil Addr
writeConfigCacheErr(appPath, conf) ==
    IF appPath = EmptyPath THEN "provided path is invalid"
    ELSE IF conf = 0 THEN "app Address info cannot be empty"
    ELSE IF ~newCacheOK THEN "apps path"
    ELSE NoError

\* the cache after writeConfigCache(appPath, conf)
writeConfigCache(appPath, conf) ==
    IF writeConfigCacheErr(appPath, conf) = NoError
        THEN [cache EXCEPT ![appPath] = conf]
        ELSE cache

\* a delete that leaves the entry
deleteConfCacheNoop(appPath) == cache

\* the cache after deleteConfCache(appPath)
deleteConfCache(appPath) ==
    IF appPath = EmptyPath \/ ~newCacheOK
        THEN cache
        ELSE [cache EXCEPT ![appPath] = 0]

(* ------------------------------------------------------------------ *)
(* hplugin.Client                                                      *)
(* ------------------------------------------------------------------ *)
\* client.ReattachConfig(): the descriptor of the connection (0: none)
ReattachConfig(c) == IF c.started THEN c.target ELSE 0

\* the subprocesses after client.Kill(): a started client terminates the
\* process it is bound to, launched or reattached alike
ClientKill(c) ==
    IF c.started /\ proc[c.target] = "alive"
        THEN [proc EXCEPT ![c.target] = "killed"]
        ELSE proc

\* outcomes of a call to a collaborator
Outcomes == IF faults THEN BOOLEAN ELSE {TRUE}

(* ------------------------------------------------------------------ *)
(* The source tree of a reference: src (the source path exists),       *)
(* srcTime (most recent modification time of the files other than the  *)
(* binary, 0: no such file), binTime (modification time of the binary, *)
(* 0: no binary).                                                      *)
(* ------------------------------------------------------------------ *)
FsAbsent  == [src |-> FALSE, srcTime |-> 0, binTime |-> 0]
FsEmpty   == [src |-> TRUE,  srcTime |-> 0, binTime |-> 0]
FsUnbuilt == [src |-> TRUE,  srcTime |-> 2, binTime |-> 0]
FsStale   == [src |-> TRUE,  srcTime |-> 2, binTime |-> 1]
FsBuilt   == [src |-> TRUE,  srcTime |-> 2, binTime |-> 3]

\* the binary file exists
BinaryPresent(f) == f.src /\ f.binTime > 0

\* App.outdatedBinary: filepath.Walk fails on a missing source path
outdatedBinary(f) ==
    IF ~f.src THEN FALSE ELSE f.srcTime > f.binTime

\* App.fetch on source tree f: the tree and the error afterwards
fetch(path, f, ok) ==
    IF IsLocalPath(path) THEN [fs |-> f, Error |-> NoError]
    ELSE IF ok THEN [fs |-> FsUnbuilt, Error |-> NoError]
    ELSE [fs |-> f, Error |-> "cloning"]

\* App.build on source tree f: go mod tidy, then go build
build(f, ok) ==
    IF ~f.src \/ f.srcTime = 0 THEN [fs |-> f, Error |-> "go mod tidy"]
    ELSE IF ok THEN [fs |-> [f EXCEPT !.binTime = 3], Error |-> NoError]
    ELSE [fs |-> f, Error |-> "go build"]

\* load decides to build (plugin.go 239-251)
needsBuild(path, f) ==
    IF IsLocalPath(path) THEN outdatedBinary(f) ELSE ~BinaryPresent(f)

\* plugin.go 226-254: the fetch and build stage of load
Prepare(a, f, fetchOk, buildOk) ==
    LET fetches == ~f.src
        r1      == IF fetches THEN fetch(a.Path, f, fetchOk)
                   ELSE [fs |-> f, Error |-> NoError]
        builds  == r1.Error = NoError /\ needsBuild(a.Path, r1.fs)
        r2      == IF builds THEN build(r1.fs, buildOk) ELSE r1
    IN  [fs |-> r2.fs, Error |-> r2.Error,
         fetched |-> IF fetches THEN 1 ELSE 0,
         built   |-> IF builds THEN 1 ELSE 0]

(* ------------------------------------------------------------------ *)
(* App.load (plugin.go 226-338), one action per step                   *)
(* ------------------------------------------------------------------ *)
\* load returns
Return(i, a) ==
    /\ app' = [app EXCEPT ![i] = a]
    /\ pc' = [pc EXCEPT ![i] = "done"]

\* load goes on at position l
Goto(i, a, l) ==
    /\ app' = [app EXCEPT ![i] = a]
    /\ pc' = [pc EXCEPT ![i] = l]

\* load without the Error short-circuit
alreadyFailedIgnored(a) == FALSE

\* 227: if p.Error != nil { return }
alreadyFailed(a) == a.Error # NoError

\* publishing whatever the manifest declares
declaresSharedHostAlways(a) == TRUE

\* 328: m.SharedHost
declaresSharedHost(a) == a.manifest = "shared"

\* 226-254: the Error short-circuit, fetch and build
LoadPrepare(i) ==
    /\ pc[i] = "load"
    /\ IF alreadyFailed(app[i])
          THEN /\ Return(i, app[i])
               /\ UNCHANGED <<fsys, calls>>
          ELSE \E fetchOk \in Outcomes, buildOk \in Outcomes :
                  LET a == app[i]
                      r == Prepare(a, fsys[a.Path], fetchOk, buildOk)
                  IN  /\ fsys' = [fsys EXCEPT ![a.Path] = r.fs]
                      /\ calls' = [calls EXCEPT
                                     ![i].fetch = @ + r.fetched,
                                     ![i].build = @ + r.built]
                      /\ IF r.Error # NoError
                            THEN Return(i, [a EXCEPT !.Error = r.Error])
                            ELSE Goto(i, a, "checkCache")
    /\ UNCHANGED <<env, proc, cache, loaded, loadPc, killed>>

\* 280, 290-294: checkConfCache; on a miss the client is set up to launch
LoadCheckCache(i) ==
    /\ pc[i] = "checkCache"
    /\ IF checkConfCache(app[i].Path)
          THEN Goto(i, app[i], "readCache")
          ELSE Goto(i, [app[i] EXCEPT !.client =
                           [kind |-> "launch", target |-> 0, started |-> FALSE]],
                    "connect")
    /\ UNCHANGED <<env, fsys, proc, cache, loaded, loadPc, killed, calls>>

\* 281-289: readConfigCache; the client is set up to reattach
LoadReadCache(i) ==
    /\ pc[i] = "readCache"
    /\ LET a   == app[i]
           err == readConfigCacheErr(a.Path)
       IN  IF err # NoError
              THEN Return(i, [a EXCEPT !.Error = err])
              ELSE Goto(i, [a EXCEPT !.client =
                               [kind |-> "reattach", target |-> cache[a.Path],
                                started |-> FALSE]],
                        "connect")
    /\ UNCHANGED <<env, fsys, proc, cache, loaded, loadPc, killed, calls>>

\* 297-301: p.client.Client() starts the subprocess or reattaches to it
LoadConnect(i) ==
    /\ pc[i] = "connect"
    /\ \E ok \in Outcomes :
          LET a == app[i]
              failed == [a EXCEPT !.Error = "connecting"]
          IN  IF a.client.kind = "launch"
                 THEN IF ~BinaryPresent(fsys[a.Path])
                         THEN Return(i, failed) /\ UNCHANGED proc
                      ELSE IF ok
                         THEN /\ Goto(i, [a EXCEPT !.client.target = i,
                                                   !.client.started = TRUE],
                                      "dispense")
                              /\ proc' = [proc EXCEPT ![i] = "alive"]
                      ELSE /\ Return(i, failed)
                           /\ proc' = [proc EXCEPT ![i] = "killed"]
                 ELSE IF proc[a.client.target] = "alive" /\ ok
                         THEN /\ Goto(i, [a EXCEPT !.client.started = TRUE],
                                      "dispense")
                              /\ UNCHANGED proc
                      ELSE Return(i, failed) /\ UNCHANGED proc
    /\ UNCHANGED <<env, fsys, cache, loaded, loadPc, killed, calls>>

\* 304-312: rpcClient.Dispense
LoadDispense(i) ==
    /\ pc[i] = "dispense"
    /\ \E ok \in Outcomes :
          IF ok THEN Goto(i, [app[i] EXCEPT !.Interface = TRUE], "manifest")
                ELSE Return(i, [app[i] EXCEPT !.Error = "dispensing"])
    /\ UNCHANGED <<env, fsys, proc, cache, loaded, loadPc, killed, calls>>

\* 314-323 and the first operand of 328: the Manifest call
LoadManifest(i) ==
    /\ pc[i] = "manifest"
    /\ \E ok \in Outcomes :
          LET a == app[i]
          IN  IF proc[a.client.target] = "alive" /\ ok
                 THEN LET b == [a EXCEPT !.isSharedHost = sharedHost,
                                         !.manifest = IF sharedHost
                                                         THEN "shared"
                                                         ELSE "plain"]
                      IN  IF declaresSharedHost(b) THEN Goto(i, b, "publishCheck")
                                        ELSE Return(i, b)
                 ELSE Return(i, [a EXCEPT !.Error = "manifest load"])
    /\ UNCHANGED <<env, fsys, proc, cache, loaded, loadPc, killed, calls>>

\* 328: !checkConfCache(p.Path)
LoadPublishCheck(i) ==
    /\ pc[i] = "publishCheck"
    /\ IF ~checkConfCache(app[i].Path)
          THEN Goto(i, app[i], "publish")
          ELSE Return(i, app[i])
    /\ UNCHANGED <<env, fsys, proc, cache, loaded, loadPc, killed, calls>>

\* 329-337: writeConfigCache and isHost
LoadPublish(i) ==
    /\ pc[i] = "publish"
    /\ LET a    == app[i]
           conf == ReattachConfig(a.client)
           err  == writeConfigCacheErr(a.Path, conf)
       IN  /\ cache' = writeConfigCache(a.Path, conf)
           /\ IF err # NoError
                 THEN Return(i, [a EXCEPT !.Error = err])
                 ELSE Return(i, [a EXCEPT !.isHost = TRUE])
    /\ UNCHANGED <<env, fsys, proc, loaded, loadPc, killed, calls>>

(* ------------------------------------------------------------------ *)
(* App.KillClient (plugin.go 194-209)                                  *)
(* ------------------------------------------------------------------ *)
\* KillClient without the guard of line 195
NonOwningSharedUnguarded(a) == FALSE

\* 195: a shared-host app this instance did not initiate
NonOwningShared(a) == a.isSharedHost /\ ~a.isHost

\* KillClient clearing the cache whoever owns the entry
ownsCacheEntryAlways(a) == TRUE

\* 205: this instance published the cache entry
ownsCacheEntry(a) == a.isHost

\* KillClient may run once load has returned; inside Load's process that is
\* after Load has returned; UnloadApps (681-685), deferred by linkApps, calls
\* it once on every App, in the order of the list
CanKill(i) ==
    /\ pc[i] = "done"
    /\ mode = "Load" => loadPc = "returned"
    /\ Linking => /\ link.pc = "unload"
                  /\ link.global = "list"
                  /\ ~killed[i]
                  /\ \A j \in 1..(i - 1) : killed[j]

KillClient(i) ==
    /\ CanKill(i)
    /\ LET a == app[i]
       IN  IF NonOwningShared(a)
              THEN UNCHANGED <<app, proc, cache>>
              ELSE /\ proc' = IF a.client.kind # "nil"
                                 THEN ClientKill(a.client) ELSE proc
                   /\ cache' = IF ownsCacheEntry(a)
                                  THEN deleteConfCache(a.Path) ELSE cache
                   /\ app' = [app EXCEPT ![i].isHost = FALSE]
    /\ killed' = [killed EXCEPT ![i] = TRUE]
    /\ UNCHANGED <<env, fsys, pc, loaded, loadPc, calls>>

\* an app subprocess dies on its own; nothing clears the cache
Crash(k) ==
    /\ proc[k] = "alive"
    /\ proc' = [proc EXCEPT ![k] = "crashed"]
    /\ UNCHANGED <<env, fsys, app, pc, cache, loaded, loadPc, killed, calls>>

(* ------------------------------------------------------------------ *)
(* Independent host processes: instance i is built from cfgs[i]        *)
(* ------------------------------------------------------------------ *)
NewApp(i) ==
    /\ mode = "procs"
    /\ pc[i] = "none"
    /\ Goto(i, newApp(AppsDir, cfgs[i], osStat(cfgs[i])), "load")
    /\ UNCHANGED <<env, fsys, proc, cache, loaded, loadPc, killed, calls>>

(* ------------------------------------------------------------------ *)
(* Load (plugin.go 100-113): one host process, the entries in order    *)
(* ------------------------------------------------------------------ *)
\* 101-104: AppsPath()
LoadStart ==
    /\ loadPc = "start"
    /\ loadPc' = IF appsDirOK THEN "loop" ELSE "failed"
    /\ UNCHANGED <<env, fsys, app, pc, proc, cache, loaded, killed, calls>>

\* a loop that stops at the first app in error
LoadLoopStopsOnError ==
    \/ Len(loaded) = Len(cfgs)
    \/ Len(loaded) > 0 /\ app[loaded[Len(loaded)]].Error # NoError

\* the range loop of 106 has ended
LoadLoopDone == Len(loaded) = Len(cfgs)

\* 107: p := newApp(appsDir, cp, options...)
LoadNewApp ==
    /\ loadPc = "loop"
    /\ ~LoadLoopDone
    /\ LET i == Len(loaded) + 1
       IN  Goto(i, newApp(AppsDir, cfgs[i], osStat(cfgs[i])), "load")
    /\ loadPc' = "body"
    /\ UNCHANGED <<env, fsys, proc, cache, loaded, killed, calls>>

\* 110: loaded = append(loaded, p), after p.load(ctx) has returned
LoadAppend ==
    /\ loadPc = "body"
    /\ pc[Len(loaded) + 1] = "done"
    /\ loaded' = Append(loaded, Len(loaded) + 1)
    /\ loadPc' = "loop"
    /\ UNCHANGED <<env, fsys, app, pc, proc, cache, killed, calls>>

\* 112: return loaded, nil
LoadReturn ==
    /\ loadPc = "loop"
    /\ LoadLoopDone
    /\ loadPc' = "returned"
    /\ UNCHANGED <<env, fsys, app, pc, proc, cache, loaded, killed, calls>>

(* ------------------------------------------------------------------ *)
(* Specifications                                                      *)
(* ------------------------------------------------------------------ *)
\* the path resolver has been given nothing
NoResolve == [appPath |-> EmptyPath, stat |-> "absent", done |-> FALSE,
              out |-> ZeroApp]

InitCommon ==
    /\ resolved = NoResolve
    /\ calling = NoCalling
    /\ tree = LegacyTree("RunE")
    /\ link = NoLink
    /\ exec = NoExec
    /\ appsDirOK \in BOOLEAN
    /\ sharedHost \in BOOLEAN
    /\ faults \in BOOLEAN
    /\ app = [i \in Inst |-> ZeroApp]
    /\ pc = [i \in Inst |-> "none"]
    /\ proc = [i \in Inst |-> "none"]
    /\ cache = [p \in Paths |-> 0]
    /\ loaded = << >>
    /\ killed = [i \in Inst |-> FALSE]
    /\ calls = [i \in Inst |-> [fetch |-> 0, build |-> 0]]

\* the source trees the behaviours start from
InitFs(local, remote) ==
    \E l \in local, r \in remote :
        fsys = [p \in Paths |-> IF p = LocalApp THEN l
                                ELSE IF p = RemoteApp THEN r
                                ELSE FsAbsent]

\* NumInst host processes load the same reference
Init ==
    /\ mode = "procs"
    /\ loadPc = "idle"
    /\ cfgs = [i \in Inst |-> LocalApp]
    /\ InitFs({FsBuilt, FsStale}, {FsAbsent})
    /\ InitCommon

LoadStep(i) ==
    \/ LoadPrepare(i)
    \/ LoadCheckCache(i)
    \/ LoadReadCache(i)
    \/ LoadConnect(i)
    \/ LoadDispense(i)
    \/ LoadManifest(i)
    \/ LoadPublishCheck(i)
    \/ LoadPublish(i)

Next ==
    \/ \E i \in Inst : NewApp(i)
    \/ \E i \in Inst : LoadStep(i)
    \/ \E i \in Inst : KillClient(i)
    \/ \E k \in Inst : Crash(k)

Spec == Init /\ [][Next]_vars

\* one host process loads a list of at most NumInst entries
InitLoad ==
    /\ mode = "Load"
    /\ loadPc = "start"
    /\ cfgs \in UNION {[1..n -> Paths] : n \in 0..NumInst}
    /\ InitFs({FsBuilt, FsStale, FsEmpty}, {FsAbsent, FsBuilt, FsStale})
    /\ InitCommon

NextLoad ==
    \/ LoadStart
    \/ LoadNewApp
    \/ \E i \in Inst : LoadStep(i)
    \/ LoadAppend
    \/ LoadReturn
    \/ \E i \in Inst : KillClient(i)
    \/ \E k \in Inst : Crash(k)

SpecLoad == InitLoad /\ [][NextLoad]_vars

(* ------------------------------------------------------------------ *)
(* The path resolver alone: newApp applied to any reference            *)
(* ------------------------------------------------------------------ *)
\* the characters of a reference
RefChars == {"h", "/", "@"}

\* the references of at most MaxRefLen characters
Refs == UNION {[1..n -> RefChars] : n \in 0..MaxRefLen}

\* the loader is not running
LoaderIdle ==
    /\ appsDirOK = TRUE
    /\ sharedHost = FALSE
    /\ faults = FALSE
    /\ fsys = [p \in Paths |-> FsAbsent]
    /\ cfgs = << >>
    /\ app = [i \in Inst |-> ZeroApp]
    /\ pc = [i \in Inst |-> "none"]
    /\ proc = [i \in Inst |-> "none"]
    /\ cache = [p \in Paths |-> 0]
    /\ loaded = << >>
    /\ loadPc = "idle"
    /\ killed = [i \in Inst |-> FALSE]
    /\ calls = [i \in Inst |-> [fetch |-> 0, build |-> 0]]

loader == <<appsDirOK, sharedHost, faults, fsys, cfgs, app, pc, proc, cache,
            loaded, loadPc, killed, calls>>

InitResolve ==
    /\ mode = "newApp"
    /\ LoaderIdle
    /\ calling = NoCalling
    /\ tree = LegacyTree("RunE")
    /\ link = NoLink
    /\ exec = NoExec
    /\ \E r \in Refs, st \in {"absent", "file", "dir"} :
          resolved = [NoResolve EXCEPT !.appPath = r, !.stat = st]

\* p := newApp(appsDir, cp)
Resolve ==
    /\ mode = "newApp"
    /\ ~resolved.done
    /\ resolved' = [resolved EXCEPT
                       !.done = TRUE,
                       !.out  = newApp(AppsDir, resolved.appPath, resolved.stat)]
    /\ UNCHANGED <<mode, loader, tree, link, exec, calling>>

NextResolve == Resolve

SpecResolve == InitResolve /\ [][NextResolve]_vars

(* ------------------------------------------------------------------ *)
(* linkApps (plugin.go 631-677), one step for every call it makes.     *)
(* The manifest of an app is disclosed one descriptor at a time.       *)
(* ------------------------------------------------------------------ *)
\* everything of the loader but the Apps
loaderRest == <<mode, appsDirOK, sharedHost, faults, fsys, cfgs, pc, proc,
                cache, loaded, loadPc, killed, calls, resolved, calling>>

\* p.Error = e, when a linker has assigned it
SetError(i, res) ==
    IF res.Error = "" THEN UNCHANGED app
    ELSE app' = [app EXCEPT ![i].Error = res.Error]

\* the path or name the last Error assigned by a linker names
Named(res) == IF res.Error = "" THEN link.named ELSE res.named

\* a loop that goes on to the next app without recording the failed one
NextAppNoAppend(named) ==
    [link EXCEPT !.pc = "loop", !.i = @ + 1, !.stack = << >>,
                 !.named = named]

\* 636-639, 649-652, 655-658: linkErrors = append(linkErrors, p); continue
NextApp(named) ==
    [link EXCEPT !.pc = "loop", !.i = @ + 1, !.stack = << >>,
                 !.named = named,
                 !.linkErrors = IF app'[link.i].Error # NoError
                                THEN Append(@, link.i) ELSE @]

\* 634-646: the next app of the list; one that failed to load is skipped,
\* the others are asked for their manifest
LinkManifest ==
    /\ Linking
    /\ link.pc = "loop"
    /\ link.i <= NumInst
    /\ \/ /\ app[link.i].Error # NoError
          /\ UNCHANGED app
          /\ link' = NextApp(link.named)
       \/ /\ app[link.i].Error = NoError
          /\ \E ok \in BOOLEAN :
                IF ok THEN /\ UNCHANGED app
                           /\ link' = [link EXCEPT
                                          !.pc = "hooks",
                                          !.asked = @ \cup {link.i}]
                ELSE /\ app' = [app EXCEPT ![link.i].Error = "manifest"]
                     /\ link' = [NextApp(link.named) EXCEPT
                                    !.asked = @ \cup {link.i}]
    /\ UNCHANGED <<loaderRest, tree, exec>>

\* 691-693: linkAppHook on the next hook of the manifest
LinkHookOf(hook) ==
    /\ Linking
    /\ link.pc = "hooks"
    /\ MoreLinks
    /\ LET res == linkAppHook(tree, link.i, hook)
       IN  /\ tree' = res.tree
           /\ SetError(link.i, res)
           /\ link' = [link EXCEPT !.n = @ + 1, !.named = Named(res)]
    /\ UNCHANGED <<loaderRest, exec>>

LinkHook == \E hook \in OfferedHooks : LinkHookOf(hook)

\* 648-653: linkAppHooks has returned
LinkHooksDone ==
    /\ Linking
    /\ link.pc = "hooks"
    /\ UNCHANGED <<app, tree>>
    /\ link' = IF app[link.i].Error # NoError THEN NextApp(link.named)
               ELSE [link EXCEPT !.pc = "cmds"]
    /\ UNCHANGED <<loaderRest, exec>>

\* 814-815: linkAppCmd on the next command of the manifest
LinkCmdOf(appCmd) ==
    /\ Linking
    /\ link.pc = "cmds"
    /\ link.stack = << >>
    /\ app[link.i].Error = NoError
    /\ MoreLinks
    /\ LET res == linkAppCmd(tree, RootPath, link.i, link.n + 1, appCmd)
       IN  /\ tree' = res.tree
           /\ SetError(link.i, res)
           /\ link' = [link EXCEPT
                          !.n = @ + 1,
                          !.named = Named(res),
                          !.stack = IF res.Error # "" THEN << >>
                                    ELSE res.calls]
    /\ UNCHANGED <<loaderRest, exec>>

LinkCmd == \E appCmd \in OfferedCmds : LinkCmdOf(appCmd)

\* 888-894: linkAppCmd on the next child of a command just added
LinkSubCmd ==
    /\ Linking
    /\ link.pc = "cmds"
    /\ link.stack # << >>
    /\ LET call == Head(link.stack)
           res  == linkAppCmd(tree, call.rootCmd, link.i, call.top,
                              call.appCmd)
       IN  /\ tree' = res.tree
           /\ SetError(link.i, res)
           /\ link' = [link EXCEPT
                          !.named = Named(res),
                          !.stack = IF res.Error # "" THEN << >>
                                    ELSE res.calls \o Tail(link.stack)]
    /\ UNCHANGED <<loaderRest, exec>>

\* 654-659: linkAppCmds has returned
LinkCmdsDone ==
    /\ Linking
    /\ link.pc = "cmds"
    /\ link.stack = << >>
    /\ UNCHANGED <<app, tree>>
    /\ link' = NextApp(link.named)
    /\ UNCHANGED <<loaderRest, exec>>

\* what the package variable apps (552-554) holds: LoadApps stores the list
\* it passes to linkApps (584, 592); newAppInstallCmd (501-516) and the
\* tests (app_test.go 373, 608) pass a list of their own
GlobalApps == {"list", "other"}

\* 660-676: the result of linkApps; UnloadApps is deferred when an app failed
LinkReturn ==
    /\ Linking
    /\ link.pc = "loop"
    /\ link.i > NumInst
    /\ \E g \in GlobalApps :
          link' = IF Len(link.linkErrors) > 0
                  THEN [link EXCEPT
                           !.pc  = "unload",
                           !.ret = "fail to link",
                           !.msg = [k \in 1..Len(link.linkErrors) |->
                                       <<app[link.linkErrors[k]].Path,
                                         app[link.linkErrors[k]].Error>>],
                           !.global = g]
                  ELSE [link EXCEPT !.pc = "returned", !.ret = NoError]
    /\ UNCHANGED <<loaderRest, app, tree, exec>>

\* 681-685: the loop of UnloadApps has ended
UnloadAppsDone == link.global = "other" \/ \A i \in Inst : killed[i]

\* 662, 676: the deferred UnloadApps has returned and linkApps returns the
\* error
LinkFailed ==
    /\ Linking
    /\ link.pc = "unload"
    /\ UnloadAppsDone
    /\ link' = [link EXCEPT !.pc = "failed"]
    /\ UNCHANGED <<loaderRest, app, tree, exec>>

\* how the legacy command registers its body: as in app_test.go (22-45) when
\* only linking is looked at, either way when commands are executed
LegacyForms == IF mode = "exec" THEN {"Run", "RunE"} ELSE {"Run"}

\* the App Load leaves for a reference it could load, and for one it could not
AppPath(i)   == IF i % 2 = 1 THEN LocalApp ELSE RemoteApp
LoadedApp(i) ==
    [newApp(AppsDir, AppPath(i), "dir") EXCEPT
        !.client    = [kind |-> "launch", target |-> i, started |-> TRUE],
        !.Interface = TRUE,
        !.manifest  = "plain"]
FailedApp(i) ==
    [newApp(AppsDir, AppPath(i), "dir") EXCEPT
        !.Error  = "connecting",
        !.client = [kind |-> "launch", target |-> 0, started |-> FALSE]]

\* linkApps(ctx, rootCmd, apps) is called with the Apps Load returned
InitApps ==
    /\ appsDirOK = TRUE
    /\ sharedHost = FALSE
    /\ faults = FALSE
    /\ fsys = [p \in Paths |-> IF p \in ValidPaths THEN FsBuilt ELSE FsAbsent]
    /\ cfgs = [i \in Inst |-> AppPath(i)]
    /\ app \in [Inst -> {LoadedApp(i) : i \in Inst} \cup {FailedApp(i) : i \in Inst}]
    /\ \A i \in Inst : app[i] \in {LoadedApp(i), FailedApp(i)}
    /\ pc = [i \in Inst |-> "done"]
    /\ proc = [i \in Inst |-> IF app[i].Error = NoError THEN "alive" ELSE "none"]
    /\ cache = [p \in Paths |-> 0]
    /\ loaded = [i \in Inst |-> i]
    /\ loadPc = "returned"
    /\ killed = [i \in Inst |-> FALSE]
    /\ calls = [i \in Inst |-> [fetch |-> 0, build |-> 0]]
    /\ resolved = NoResolve
    /\ calling = NoCalling
    /\ \E form \in LegacyForms : tree = LegacyTree(form)
    /\ link = [NoLink EXCEPT !.pc = "loop"]
    /\ exec = NoExec

InitLink == mode = "link" /\ InitApps

NextLink ==
    \/ LinkManifest
    \/ LinkHook
    \/ LinkHooksDone
    \/ LinkCmd
    \/ LinkSubCmd
    \/ LinkCmdsDone
    \/ LinkReturn
    \/ LinkFailed
    \/ \E i \in Inst : KillClient(i)

SpecLink == InitLink /\ [][NextLink]_vars

(* ------------------------------------------------------------------ *)
(* The execution of a command of the linked tree by cobra: the         *)
(* handlers installed by linkAppHook (723-805) and linkAppCmd (858-886) *)
(* ------------------------------------------------------------------ *)
\* the positional arguments a command may be given
ArgLists == {<< >>, <<"x">>}

\* App.With of an app: its install-time parameters
With(i) == <<"with", i>>

\* an ExecutedCommand that carries the name of the command, not its path
ExecutedCommandNoPath(i, cmd, args) ==
    [Use |-> tree[cmd].Use, Path |-> <<Name(tree[cmd])>>, Args |-> args,
     OsArgs |-> cmd \o args, With |-> With(i)]

\* the ExecutedCommand of 709-716 and 868-874; os.Args is the command
\* line: the command path followed by the arguments
ExecutedCommand(i, cmd, args) ==
    [Use |-> tree[cmd].Use, Path |-> cmd, Args |-> args,
     OsArgs |-> cmd \o args, With |-> With(i)]

\* the number of the hook of layer k among the hooks of the handler
HookNo(h, k) == Cardinality({j \in 1..k : h[j].kind = "hook"})

\* one call of a handler of the command or of a method of an app: the call
\* is recorded, and it fails when the execution says so
Call(call, layer, no, e, tr) ==
    [trace |-> Append(tr, [call |-> call, app |-> layer.app,
                           hook |-> layer.hook, no |-> no,
                           cmd |-> ExecutedCommand(layer.app, e.cmd, e.args)]),
     err   |-> IF <<call, no>> \in e.fails THEN call ELSE NoError]

Ok(tr) == [trace |-> tr, err |-> NoError]

\* newChainWithHomeFlags fails with an error other than ErrGoModNotFound
chainFails(e) == e.chainErr = "other"
ChainError == "newChainWithHomeFlags"

RECURSIVE PreRunE(_, _, _)

\* a wrapper that runs the hook before the handler it wraps
RECURSIVE PreRunEHookFirst(_, _, _)
PreRunEHookFirst(h, e, tr) ==
    LET k     == Len(h)
        top   == h[k]
        inner == SubSeq(h, 1, k - 1)
    IN  IF top.kind = "legacy" THEN Call("PreRunE", top, 0, e, tr)
        ELSE IF chainFails(e) THEN [trace |-> tr, err |-> ChainError]
        ELSE LET r == Call("ExecuteHookPre", top, HookNo(h, k), e, tr)
             IN  IF r.err # NoError \/ inner = NilHandler THEN r
                 ELSE PreRunEHookFirst(inner, e, r.trace)

\* 723-745: cmd.PreRunE
PreRunE(h, e, tr) ==
    LET k     == Len(h)
        top   == h[k]
        inner == SubSeq(h, 1, k - 1)
    IN  IF top.kind = "legacy" THEN Call("PreRunE", top, 0, e, tr)
        ELSE LET r == IF inner # NilHandler THEN PreRunE(inner, e, tr)
                      ELSE Ok(tr)
             IN  IF r.err # NoError THEN r
                 ELSE IF chainFails(e)
                     THEN [trace |-> r.trace, err |-> ChainError]
                 ELSE Call("ExecuteHookPre", top, HookNo(h, k), e, r.trace)

\* clictx.Do(ctx, fn): the result of fn, or the error of the context when
\* the context is done first, whether fn has made its call or not
clictxDo(cancel, tr, r) ==
    IF cancel = "none" THEN r
    ELSE IF cancel = "early" THEN [trace |-> tr, err |-> "context canceled"]
    ELSE [trace |-> r.trace, err |-> "context canceled"]

RECURSIVE RunE(_, _, _)

\* a wrapper that returns the error of the body without the cleanup call
RECURSIVE RunENoCleanUp(_, _, _)
RunENoCleanUp(h, e, tr) ==
    LET k     == Len(h)
        top   == h[k]
        inner == SubSeq(h, 1, k - 1)
    IN  IF top.kind = "legacy" THEN Call("RunE", top, 0, e, tr)
        ELSE IF top.kind = "exec"
            THEN clictxDo(e.cancel, tr,
                          IF chainFails(e)
                          THEN [trace |-> tr, err |-> ChainError]
                          ELSE Call("Execute", top, 0, e, tr))
        ELSE IF inner = NilHandler THEN Ok(tr)
        ELSE RunENoCleanUp(inner, e, tr)

\* 749-772: cmd.RunE installed by linkAppHook, and 859-885: newCmd.RunE
RunE(h, e, tr) ==
    LET k     == Len(h)
        top   == h[k]
        inner == SubSeq(h, 1, k - 1)
    IN  IF top.kind = "legacy" THEN Call("RunE", top, 0, e, tr)
        ELSE IF top.kind = "exec"
            THEN clictxDo(e.cancel, tr,
                          IF chainFails(e)
                          THEN [trace |-> tr, err |-> ChainError]
                          ELSE Call("Execute", top, 0, e, tr))
        ELSE IF inner = NilHandler THEN Ok(tr)
        ELSE LET r == RunE(inner, e, tr)
             IN  IF r.err = NoError THEN r
                 ELSE IF chainFails(e)
                     THEN [trace |-> r.trace, err |-> ChainError]
                 ELSE [trace |-> Call("ExecuteHookCleanUp", top, HookNo(h, k),
                                      e, r.trace).trace,
                       err   |-> r.err]

RECURSIVE PostRunE(_, _, _)

\* a wrapper that returns the error of its cleanup call when nothing else
\* has failed
RECURSIVE PostRunECleanUpError(_, _, _)
PostRunECleanUpError(h, e, tr) ==
    LET k     == Len(h)
        top   == h[k]
        inner == SubSeq(h, 1, k - 1)
    IN  IF top.kind = "legacy" THEN Call("PostRunE", top, 0, e, tr)
        ELSE IF chainFails(e) THEN [trace |-> tr, err |-> ChainError]
        ELSE LET r  == IF inner # NilHandler
                       THEN PostRunECleanUpError(inner, e, tr)
                       ELSE Ok(tr)
                 r2 == IF r.err # NoError THEN r
                       ELSE Call("ExecuteHookPost", top, HookNo(h, k), e,
                                 r.trace)
                 r3 == Call("ExecuteHookCleanUp", top, HookNo(h, k), e,
                            r2.trace)
             IN  IF r2.err # NoError THEN [trace |-> r3.trace, err |-> r2.err]
                 ELSE r3

\* a wrapper that calls its hook before the post-phase it wraps
RECURSIVE PostRunEHookFirst(_, _, _)
PostRunEHookFirst(h, e, tr) ==
    LET k     == Len(h)
        top   == h[k]
        inner == SubSeq(h, 1, k - 1)
    IN  IF top.kind = "legacy" THEN Call("PostRunE", top, 0, e, tr)
        ELSE IF chainFails(e) THEN [trace |-> tr, err |-> ChainError]
        ELSE LET r  == Call("ExecuteHookPost", top, HookNo(h, k), e, tr)
                 r2 == IF r.err # NoError \/ inner = NilHandler THEN r
                       ELSE PostRunEHookFirst(inner, e, r.trace)
             IN  [trace |-> Call("ExecuteHookCleanUp", top, HookNo(h, k), e,
                                 r2.trace).trace,
                  err   |-> r2.err]

\* 774-805: cmd.PostRunE
PostRunE(h, e, tr) ==
    LET k     == Len(h)
        top   == h[k]
        inner == SubSeq(h, 1, k - 1)
    IN  IF top.kind = "legacy" THEN Call("PostRunE", top, 0, e, tr)
        ELSE IF chainFails(e) THEN [trace |-> tr, err |-> ChainError]
        ELSE LET r  == IF inner # NilHandler THEN PostRunE(inner, e, tr)
                       ELSE Ok(tr)
                 r2 == IF r.err # NoError THEN r
                       ELSE Call("ExecuteHookPost", top, HookNo(h, k), e,
                                 r.trace)
             IN  [trace |-> Call("ExecuteHookCleanUp", top, HookNo(h, k), e,
                                 r2.trace).trace,
                  err   |-> r2.err]

\* an execution that goes on with the body when the pre-phase has failed
executeAfterPreError(e) ==
    LET n    == tree[e.cmd]
        pre  == IF n.PreRunE # NilHandler THEN PreRunE(n.PreRunE, e, << >>)
                ELSE Ok(<< >>)
        body == IF n.RunE # NilHandler THEN RunE(n.RunE, e, pre.trace)
                ELSE Ok(Call("Run", LegacyLayer, 0, e, pre.trace).trace)
    IN  IF pre.err # NoError THEN [trace |-> body.trace, err |-> pre.err]
        ELSE IF body.err # NoError THEN body
        ELSE IF n.PostRunE # NilHandler THEN PostRunE(n.PostRunE, e, body.trace)
        ELSE body

\* an execution that runs the post-phase also when the body has failed
executePostAlways(e) ==
    LET n    == tree[e.cmd]
        pre  == IF n.PreRunE # NilHandler THEN PreRunE(n.PreRunE, e, << >>)
                ELSE Ok(<< >>)
        body == IF n.RunE # NilHandler THEN RunE(n.RunE, e, pre.trace)
                ELSE Ok(Call("Run", LegacyLayer, 0, e, pre.trace).trace)
        post == IF n.PostRunE # NilHandler
                THEN PostRunE(n.PostRunE, e, body.trace) ELSE body
    IN  IF pre.err # NoError THEN pre
        ELSE IF body.err # NoError THEN [trace |-> post.trace, err |-> body.err]
        ELSE post

\* cobra.Command.execute: the pre-phase, the body (RunE when it is set, Run
\* otherwise) and the post-phase; the first error ends the execution
execute(e) ==
    LET n    == tree[e.cmd]
        pre  == IF n.PreRunE # NilHandler THEN PreRunE(n.PreRunE, e, << >>)
                ELSE Ok(<< >>)
        body == IF pre.err # NoError THEN pre
                ELSE IF n.RunE # NilHandler THEN RunE(n.RunE, e, pre.trace)
                ELSE Ok(Call("Run", LegacyLayer, 0, e, pre.trace).trace)
    IN  IF body.err # NoError THEN body
        ELSE IF n.PostRunE # NilHandler THEN PostRunE(n.PostRunE, e, body.trace)
        ELSE body

\* the calls an execution of the command may make
FailPoints(n) ==
    {<<"PreRunE", 0>>, <<"RunE", 0>>, <<"PostRunE", 0>>, <<"Execute", 0>>}
    \cup {<<c, no>> : c \in {"ExecuteHookPre", "ExecuteHookPost",
                             "ExecuteHookCleanUp"},
                      no \in 1..HookNo(n.PreRunE, Len(n.PreRunE))}

\* a runnable command is executed once linkApps has returned nil
Exec ==
    /\ mode = "exec"
    /\ link.pc = "returned"
    /\ ~exec.done
    /\ \E cmd \in {p \in DOMAIN tree : Runnable(tree[p])} :
       \E args \in ArgLists,
          fails \in {F \in SUBSET FailPoints(tree[cmd]) :
                        Cardinality(F) <= MaxFails},
          chainErr \in {NoError, "ErrGoModNotFound", "other"},
          cancel \in {"none", "early", "late"} :
          LET e == [NoExec EXCEPT !.done = TRUE, !.cmd = cmd, !.args = args,
                                  !.fails = fails, !.chainErr = chainErr,
                                  !.cancel = cancel]
              r == execute(e)
          IN  exec' = [e EXCEPT !.trace = r.trace, !.ret = r.err]
    /\ UNCHANGED <<loaderRest, app, tree, link>>

InitExec == mode = "exec" /\ InitApps

NextExec ==
    \/ LinkManifest
    \/ LinkHook
    \/ LinkHooksDone
    \/ LinkCmd
    \/ LinkSubCmd
    \/ LinkCmdsDone
    \/ LinkReturn
    \/ LinkFailed
    \/ \E i \in Inst : KillClient(i)
    \/ Exec

SpecExec == InitExec /\ [][NextExec]_vars

(* ------------------------------------------------------------------ *)
(* Cancellation.  The blocking calls of App.load (226-338) and of the  *)
(* handlers of a command (723-805, 859-885), each with the context it  *)
(* is given, while the context of the caller may be cancelled.         *)
(* ------------------------------------------------------------------ *)
\* the calls of load: fetch (229-236) when the source path is absent, build
\* (238-251) when the binary is absent or outdated, then the client
LoadCalls(fetches, builds) ==
    (IF fetches THEN <<"Clone">> ELSE << >>)
    \o (IF builds THEN <<"ModTidy", "Build">> ELSE << >>)
    \o <<"Client", "Dispense", "Manifest">>

\* the calls of a grafted command, alone or with a hook on it
CommandCalls(hooked) ==
    IF hooked
    THEN <<"ExecuteHookPre", "Execute", "ExecuteHookPost", "ExecuteHookCleanUp">>
    ELSE <<"Execute">>

\* the context a call is given: the ctx of the caller, context.Background()
\* (353), or none (296, 303)
GivenContext(call) ==
    IF call = "Clone" THEN "Background"
    ELSE IF call \in {"Client", "Dispense"} THEN "none"
    ELSE "ctx"

\* a call that is in flight returns the error of its context once that
\* context is done; Background is never done
MustAbort(call, ctx) == GivenContext(call) = "ctx" /\ ctx = "done"

\* what is left to call after a call has failed: load returns at the first
\* Error; a failed body or post-phase is followed by the cleanup of the hook
Rest(of, todo) ==
    IF of = "load" THEN << >>
    ELSE IF Head(todo) \in {"Execute", "ExecuteHookPost"}
        THEN SelectSeq(Tail(todo), LAMBDA c : c = "ExecuteHookCleanUp")
    ELSE IF Head(todo) = "ExecuteHookCleanUp" THEN Tail(todo)
    ELSE << >>

Logged(outcome) ==
    Append(calling.log, [call |-> Head(calling.todo),
                         cancelled |-> calling.ctx = "done",
                         outcome |-> outcome])

\* the next call is made
CallStart ==
    /\ mode = "cancel"
    /\ calling.todo # << >>
    /\ ~calling.busy
    /\ calling' = [calling EXCEPT !.busy = TRUE]
    /\ UNCHANGED <<mode, loader, resolved, tree, link, exec>>

\* the call in flight returns on its own, with or without an error
CallReturn ==
    /\ mode = "cancel"
    /\ calling.busy
    /\ ~MustAbort(Head(calling.todo), calling.ctx)
    /\ \E ok \in BOOLEAN :
          calling' = [calling EXCEPT
                         !.busy = FALSE,
                         !.log  = Logged(IF ok THEN "ok" ELSE "error"),
                         !.todo = IF ok THEN Tail(@)
                                  ELSE Rest(calling.of, @)]
    /\ UNCHANGED <<mode, loader, resolved, tree, link, exec>>

\* the call in flight returns the error of its context
CallAbort ==
    /\ mode = "cancel"
    /\ calling.busy
    /\ MustAbort(Head(calling.todo), calling.ctx)
    /\ calling' = [calling EXCEPT
                      !.busy = FALSE,
                      !.log  = Logged("aborted"),
                      !.todo = Rest(calling.of, @)]
    /\ UNCHANGED <<mode, loader, resolved, tree, link, exec>>

\* the caller cancels its context
Cancel ==
    /\ mode = "cancel"
    /\ calling.ctx = "live"
    /\ calling.todo # << >>
    /\ calling' = [calling EXCEPT !.ctx = "done"]
    /\ UNCHANGED <<mode, loader, resolved, tree, link, exec>>

InitCancel ==
    /\ mode = "cancel"
    /\ LoaderIdle
    /\ resolved = NoResolve
    /\ tree = LegacyTree("RunE")
    /\ link = NoLink
    /\ exec = NoExec
    /\ \/ \E fetches \in BOOLEAN, builds \in BOOLEAN :
             /\ fetches => builds
             /\ calling = [NoCalling EXCEPT !.of = "load",
                                            !.todo = LoadCalls(fetches, builds)]
       \/ \E hooked \in BOOLEAN :
             calling = [NoCalling EXCEPT !.of = "command",
                                        !.todo = CommandCalls(hooked)]

NextCancel ==
    \/ CallStart
    \/ CallReturn
    \/ CallAbort
    \/ Cancel

SpecCancel == InitCancel /\ [][NextCancel]_vars

(* ------------------------------------------------------------------ *)
(* Update (plugin.go 115-124) and App.clean (376-390)                  *)
(* ------------------------------------------------------------------ *)
\* a clean that removes the directory of any app
cleanAlways(a, f, ok) ==
    IF ok THEN [fs |-> FsAbsent, err |-> NoError]
    ELSE [fs |-> f, err |-> "remove"]

\* App.clean on source tree f: the tree afterwards and the error returned
clean(a, f, ok) ==
    IF a.Error # NoError THEN [fs |-> f, err |-> NoError]
    ELSE IF IsLocalPath(a.Path) THEN [fs |-> f, err |-> NoError]
    ELSE IF ok THEN [fs |-> FsAbsent, err |-> NoError]
    ELSE [fs |-> f, err |-> "remove"]

\* 341-356: App.fetch as Update calls it, with its check of p.Error
appFetch(a, f, ok) ==
    IF a.Error # NoError THEN [fs |-> f, Error |-> NoError]
    ELSE fetch(a.Path, f, ok)

\* 116-121: one turn of the loop of Update
UpdateApp(i) ==
    /\ mode = "Update"
    /\ loadPc = "update"
    /\ i \in 1..Len(cfgs)
    /\ pc[i] = "done"
    /\ \A j \in 1..(i - 1) : pc[j] = "updated"
    /\ \E cleanOk \in BOOLEAN, fetchOk \in BOOLEAN :
          LET a == app[i]
              c == clean(a, fsys[a.Path], cleanOk)
              r == appFetch(a, c.fs, fetchOk)
          IN  IF c.err # NoError
                 THEN /\ fsys' = [fsys EXCEPT ![a.Path] = c.fs]
                      /\ loadPc' = "failed"
                      /\ UNCHANGED app
                 ELSE /\ fsys' = [fsys EXCEPT ![a.Path] = r.fs]
                      /\ app' = [app EXCEPT ![i].Error =
                                    IF r.Error # NoError THEN r.Error ELSE @]
                      /\ UNCHANGED loadPc
    /\ pc' = [pc EXCEPT ![i] = "updated"]
    /\ UNCHANGED <<env, proc, cache, loaded, killed, calls>>

\* 123: return nil
UpdateReturn ==
    /\ mode = "Update"
    /\ loadPc = "update"
    /\ \A i \in 1..Len(cfgs) : pc[i] = "updated"
    /\ loadPc' = "returned"
    /\ UNCHANGED <<env, fsys, app, pc, proc, cache, loaded, killed, calls>>

\* the Apps Update may be given: as newApp built them, with or without an
\* Error of their load
InitUpdate ==
    /\ mode = "Update"
    /\ loadPc = "update"
    /\ resolved = NoResolve
    /\ calling = NoCalling
    /\ tree = LegacyTree("RunE")
    /\ link = NoLink
    /\ exec = NoExec
    /\ appsDirOK = TRUE
    /\ sharedHost = FALSE
    /\ faults = FALSE
    /\ cfgs \in UNION {[1..n -> Paths] : n \in 1..NumInst}
    /\ InitFs({FsBuilt, FsEmpty}, {FsAbsent, FsBuilt, FsUnbuilt})
    /\ \E failed \in SUBSET Inst :
          app = [i \in Inst |->
                    IF i > Len(cfgs) THEN ZeroApp
                    ELSE LET a == newApp(AppsDir, cfgs[i], osStat(cfgs[i]))
                         IN  IF i \in failed /\ a.Error = NoError
                             THEN [a EXCEPT !.Error = "connecting"]
                             ELSE a]
    /\ pc = [i \in Inst |-> IF i > Len(cfgs) THEN "none" ELSE "done"]
    /\ proc = [i \in Inst |-> "none"]
    /\ cache = [p \in Paths |-> 0]
    /\ loaded = << >>
    /\ killed = [i \in Inst |-> FALSE]
    /\ calls = [i \in Inst |-> [fetch |-> 0, build |-> 0]]

NextUpdate ==
    \/ \E i \in Inst : UpdateApp(i)
    \/ UpdateReturn

SpecUpdate == InitUpdate /\ [][NextUpdate]_vars

(* ------------------------------------------------------------------ *)
(* Clone directories: newApp on several remote references              *)
(* ------------------------------------------------------------------ *)
\* remote references: a repository, a sub-path or none, a revision or none
CloneRefs ==
    LET repos == {<<"h", "/", "o", "/", "r">>, <<"h", "/", "o", "/", "s">>}
        subs  == {<< >>, <<"/", "p">>}
        revs  == {<< >>, <<"@", "a">>, <<"@", "a", "/", "b">>,
                  <<"@", "a", "-", "b">>}
    IN  {r \o p \o v : r \in repos, p \in subs, v \in revs}

\* 161-187: newApp resolves entry i
ResolveRef(i) ==
    /\ mode = "clone"
    /\ pc[i] = "none"
    /\ Goto(i, newApp(AppsDir, cfgs[i], osStat(cfgs[i])), "done")
    /\ UNCHANGED <<env, fsys, proc, cache, loaded, loadPc, killed, calls>>

InitClone ==
    /\ mode = "clone"
    /\ loadPc = "idle"
    /\ appsDirOK = TRUE
    /\ sharedHost = FALSE
    /\ faults = FALSE
    /\ fsys = [p \in Paths |-> FsAbsent]
    /\ cfgs \in [Inst -> CloneRefs]
    /\ app = [i \in Inst |-> ZeroApp]
    /\ pc = [i \in Inst |-> "none"]
    /\ proc = [i \in Inst |-> "none"]
    /\ cache = [p \in Paths |-> 0]
    /\ loaded = << >>
    /\ killed = [i \in Inst |-> FALSE]
    /\ calls = [i \in Inst |-> [fetch |-> 0, build |-> 0]]
    /\ resolved = NoResolve
    /\ calling = NoCalling
    /\ tree = LegacyTree("RunE")
    /\ link = NoLink
    /\ exec = NoExec

NextClone == \E i \in Inst : ResolveRef(i)

SpecClone == InitClone /\ [][NextClone]_vars

(* ------------------------------------------------------------------ *)
(* Properties                                                          *)
(* ------------------------------------------------------------------ *)
\* every instance has returned from load
AllDone == \A i \in Inst : pc[i] = "done"

\* no KillClient so far, no subprocess died on its own
NoKill  == \A i \in Inst : ~killed[i]
NoCrash == \A k \in Inst : proc[k] # "crashed"

\* the instances whose isHost is set
Hosts == {i \in Inst : app[i].isHost}

\* the reference has a cache entry
HasEntry(path) == cache[path] # 0

\* C1: N loaders of one shared-host reference, started from an empty cache
\* and all loaded without error: exactly one of them ends with isHost set,
\* whatever the interleaving of their steps.
C1_ExactlyOneHost ==
    (/\ mode = "procs"
     /\ sharedHost
     /\ AllDone
     /\ NoKill /\ NoCrash
     /\ \A i \in Inst : app[i].Error = NoError)
    => Cardinality(Hosts) = 1

\* C2: instances loading one loadable shared-host reference one after
\* another, with no fault, no crash and no KillClient in between: the first
\* is the host and the cache holds its descriptor; every later one has no
\* Error, is not host and holds the first one's descriptor; the entry exists
\* after every load.
C2_Sequential ==
    (/\ mode = "Load"
     /\ sharedHost /\ ~faults
     /\ NoKill /\ NoCrash
     /\ \E path \in ValidPaths :
           /\ \A k \in 1..Len(cfgs) : cfgs[k] = path
           /\ fsys[path].src => fsys[path].srcTime > 0)
    => \A k \in 1..Len(loaded) :
          LET a     == app[loaded[k]]
              first == app[loaded[1]]
          IN  /\ HasEntry(a.Path)
              /\ k = 1 => /\ a.isHost
                          /\ cache[a.Path] = ReattachConfig(a.client)
              /\ k > 1 => /\ a.Error = NoError
                          /\ ~a.isHost
                          /\ ReattachConfig(a.client) = ReattachConfig(first.client)

C2_Witness ==
    /\ mode = "Load" /\ sharedHost /\ ~faults /\ NoKill /\ NoCrash
    /\ Len(loaded) >= 2
    /\ \A k \in 1..Len(cfgs) : cfgs[k] = LocalApp
    /\ app[loaded[1]].isHost
    /\ app[loaded[2]].client.kind = "reattach"
    /\ app[loaded[2]].client.started

\* C3: KillClient on a loaded shared-host instance that is not the host
\* changes no App, no subprocess and no cache entry.
C3_NonOwnerKill ==
    [][\A i \in Inst :
          (/\ KillClient(i)
           /\ app[i].Error = NoError
           /\ app[i].isSharedHost
           /\ ~app[i].isHost)
          => UNCHANGED <<app, proc, cache>>]_vars

C3_Witness ==
    \E i \in Inst :
        /\ killed[i]
        /\ app[i].Error = NoError /\ app[i].isSharedHost /\ ~app[i].isHost
        /\ app[i].client.kind = "reattach"
        /\ proc[app[i].client.target] = "alive"
        /\ cache[app[i].Path] = app[i].client.target
        /\ \A j \in Inst \ {i} : ~killed[j]

\* C4: KillClient on the host terminates the subprocess of its client,
\* removes the cache entry of its reference and clears isHost.
C4_OwnerKill ==
    [][\A i \in Inst :
          (KillClient(i) /\ app[i].isHost)
          => /\ proc'[app[i].client.target] # "alive"
             /\ cache'[app[i].Path] = 0
             /\ ~app'[i].isHost]_vars

C4_Witness ==
    \E i \in Inst :
        /\ killed[i] /\ \A j \in Inst \ {i} : ~killed[j]
        /\ app[i].Error = NoError /\ app[i].isSharedHost
        /\ app[i].client.kind = "launch"
        /\ proc[i] = "killed"
        /\ ~HasEntry(app[i].Path)
        /\ ~app[i].isHost

\* C5: when the manifest does not declare shared hosting, no cache entry is
\* ever written and no instance is host; every loaded instance launched its
\* own subprocess, and after its KillClient that subprocess is not running.
C5_NotShared ==
    ~sharedHost =>
        /\ \A path \in Paths : ~HasEntry(path)
        /\ \A i \in Inst :
              /\ ~app[i].isHost
              /\ app[i].client.kind # "reattach"
              /\ (pc[i] = "done" /\ app[i].Error = NoError)
                    => /\ app[i].client.started
                       /\ app[i].client.target = i
                       /\ proc[i] # "none"
              /\ killed[i] => proc[i] # "alive"

C5_Witness ==
    /\ ~sharedHost
    /\ \A i \in Inst :
          /\ pc[i] = "done" /\ app[i].Error = NoError
          /\ killed[i] /\ proc[i] = "killed"

\* C6: a second or later KillClient on an instance, and a KillClient on an
\* instance that has no client handle, change no App, no subprocess and no
\* cache entry.
C6_KillIdempotent ==
    [][\A i \in Inst :
          (KillClient(i) /\ (killed[i] \/ app[i].client.kind = "nil"))
          => UNCHANGED <<app, proc, cache>>]_vars

C6_Witness ==
    \E i, j \in Inst :
        /\ killed[i] /\ app[i].client.kind = "nil" /\ app[i].Error # NoError
        /\ killed[j] /\ app[j].client.started /\ proc[j] = "killed"

\* C7: load on an App whose Error is set returns at once and changes
\* nothing: no fetch, no build, no cache write, no subprocess, and the App
\* keeps all its fields.
C7_LoadAfterError ==
    [][\A i \in Inst :
          (LoadPrepare(i) /\ app[i].Error # NoError)
          => /\ pc'[i] = "done"
             /\ UNCHANGED <<app, fsys, calls, cache, proc>>]_vars

C7_Witness ==
    \E i \in Inst :
        /\ pc[i] = "done"
        /\ app[i].Error = "missing app property path"
        /\ app[i] = newApp(AppsDir, EmptyPath, osStat(EmptyPath))
        /\ calls[i] = [fetch |-> 0, build |-> 0]

\* C8: Load fails only when the apps directory is unavailable; when it
\* returns, it returns one App per configuration entry, in input order, every
\* one of them taken through load; an App has no Error only if it is fully
\* loaded, and a resolution failure is the App's Error.
C8_LoadAll ==
    /\ loadPc = "failed" => ~appsDirOK /\ loaded = << >>
    /\ appsDirOK => loadPc # "failed"
    /\ loadPc = "returned" =>
          /\ Len(loaded) = Len(cfgs)
          /\ \A k \in 1..Len(loaded) :
                LET a == app[loaded[k]]
                IN  /\ a.Path = cfgs[k]
                    /\ pc[loaded[k]] = "done"
                    /\ \A j \in 1..Len(loaded) : j # k => loaded[j] # loaded[k]
                    /\ newAppError(cfgs[k], osStat(cfgs[k])) # NoError
                          => a.Error = newAppError(cfgs[k], osStat(cfgs[k]))
                    /\ a.Error = NoError
                          => a.Interface /\ a.manifest # "nil" /\ a.client.started

C8_Witness ==
    /\ loadPc = "returned"
    /\ Len(loaded) >= 2
    /\ app[loaded[1]].Error # NoError
    /\ app[loaded[2]].Error = NoError
    /\ app[loaded[2]].Interface

\* C9: a loader that finds a cache entry sets up reattachment and never
\* launches a subprocess; when connecting to the cached descriptor fails, the
\* loader ends with the "connecting" Error, is not host and leaves the entry
\* in place; a loader goes on to publish only when it finds no entry.
C9_StaleDescriptor ==
    [][\A i \in Inst :
          LET a == app[i]
              entry == appsDirOK /\ a.Path # EmptyPath /\ cache[a.Path] # 0
          IN  /\ (pc[i] = "checkCache" /\ pc'[i] # "checkCache" /\ entry)
                    => /\ pc'[i] = "readCache"
                       /\ app'[i].client.kind # "launch"
              /\ (proc[i] = "none" /\ proc'[i] # "none")
                    => a.client.kind = "launch"
              /\ (LoadConnect(i) /\ a.client.kind = "reattach")
                    => /\ UNCHANGED <<cache, proc>>
                       /\ ~app'[i].isHost
                       /\ proc[a.client.target] # "alive"
                             => /\ app'[i].Error = "connecting"
                                /\ pc'[i] = "done"
              /\ (pc[i] = "publishCheck" /\ pc'[i] = "publish") => ~entry
       ]_vars

C9_Witness ==
    \E i \in Inst :
        /\ pc[i] = "done"
        /\ app[i].client.kind = "reattach"
        /\ app[i].Error = "connecting"
        /\ ~app[i].isHost
        /\ proc[i] = "none"
        /\ HasEntry(app[i].Path)
        /\ proc[cache[app[i].Path]] = "crashed"
        /\ ~faults

\* C10: KillClient on an instance that reattached to a cached descriptor and
\* is not the host terminates no subprocess, whatever the outcome of its load.
C10_ReattachedNeverKills ==
    [][\A i \in Inst :
          (/\ KillClient(i)
           /\ app[i].client.kind = "reattach"
           /\ ~app[i].isHost)
          => UNCHANGED proc]_vars

\* the path resolver has returned
Resolved == mode = "newApp" /\ resolved.done

\* the indices of the "/" of s, and the end of its third segment
SlashAt(s) == {k \in 1..Len(s) : s[k] = "/"}
ThirdEnd(s) ==
    IF Cardinality(SlashAt(s)) < 3 THEN Len(s)
    ELSE (CHOOSE k \in SlashAt(s) :
             Cardinality({j \in SlashAt(s) : j < k}) = 2) - 1

\* C11: newApp on a non-empty reference that does not begin with "/" and
\* whose path part (the text before the last "@") has fewer than 3
\* "/"-separated segments sets the 'is not a valid repository URL' Error and
\* leaves repoPath, cloneURL, cloneDir, srcPath and name empty, whatever
\* os.Stat would find.
C11_InvalidRepository ==
    (/\ Resolved
     /\ resolved.appPath # << >>
     /\ resolved.appPath[1] # "/"
     /\ LET at == {k \in 1..Len(resolved.appPath) : resolved.appPath[k] = "@"}
            part == IF at = {} THEN resolved.appPath
                    ELSE SubSeq(resolved.appPath, 1,
                                (CHOOSE k \in at : \A j \in at : j <= k) - 1)
        IN  Cardinality(SlashAt(part)) < 2)
    => /\ resolved.out.Error = "is not a valid repository URL"
       /\ resolved.out.repoPath = << >>
       /\ resolved.out.cloneURL = << >>
       /\ resolved.out.cloneDir = << >>
       /\ resolved.out.srcPath = << >>
       /\ resolved.out.name = << >>

\* a two-segment reference with a revision that has two "/" of its own,
\* where a directory exists at the reference
C11_Witness ==
    /\ Resolved
    /\ resolved.appPath = <<"h", "/", "h", "@", "h", "/", "h", "/", "h">>
    /\ resolved.stat = "dir"
    /\ resolved.out.Error = "is not a valid repository URL"

\* a remote reference host/org/repo[/sub...][@rev]: one "@" at most, three
\* or more segments before it, none of them empty, and a revision after it
WellFormed(r) ==
    LET at == {k \in 1..Len(r) : r[k] = "@"}
        n  == IF at = {} THEN Len(r) ELSE (CHOOSE k \in at : TRUE) - 1
    IN  /\ Cardinality(at) <= 1
        /\ at # {} => Len(r) > n + 1
        /\ n >= 5
        /\ r[1] # "/" /\ r[n] # "/"
        /\ \A k \in 1..(n - 1) : ~(r[k] = "/" /\ r[k + 1] = "/")
        /\ Cardinality({k \in 1..n : r[k] = "/"}) >= 2

\* the parts of a well-formed reference
PathOf(r) ==
    LET at == {k \in 1..Len(r) : r[k] = "@"}
    IN  IF at = {} THEN r ELSE SubSeq(r, 1, (CHOOSE k \in at : TRUE) - 1)
RevOf(r)  == SubSeq(r, Len(PathOf(r)) + 2, Len(r))
RepoOf(r) == SubSeq(PathOf(r), 1, ThirdEnd(PathOf(r)))
SubOf(r)  == SubSeq(PathOf(r), ThirdEnd(PathOf(r)) + 2, Len(PathOf(r)))
Dashed(v) == [k \in 1..Len(v) |-> IF v[k] = "/" THEN "-" ELSE v[k]]

\* C12: for a remote reference host/org/repo[/sub...][@rev]: repoPath is the
\* first three segments, followed by "@rev" when there is a revision;
\* cloneURL is the HTTPS URL of the first three segments; cloneDir is
\* baseDir/host/org/repo, or baseDir/host/org/repo-R with R the revision
\* with every "/" replaced by "-"; srcPath is cloneDir joined with the
\* subpath; name is the last segment of the reference without its revision.
C12_RemoteFields ==
    (Resolved /\ WellFormed(resolved.appPath))
    => LET r     == resolved.appPath
           o     == resolved.out
           path  == PathOf(r)
           rev   == RevOf(r)
           repo  == RepoOf(r)
           sub   == SubOf(r)
           last  == {k \in SlashAt(path) : \A j \in SlashAt(path) : j <= k}
           dir   == IF rev = << >>
                    THEN AppsDir \o <<"/">> \o repo
                    ELSE AppsDir \o <<"/">> \o repo \o <<"-">> \o Dashed(rev)
       IN  /\ o.Error = NoError
           /\ o.repoPath = IF rev = << >> THEN repo ELSE repo \o <<"@">> \o rev
           /\ o.cloneURL = <<"https://">> \o repo
           /\ o.cloneDir = dir
           /\ o.srcPath = IF sub = << >> THEN dir ELSE dir \o <<"/">> \o sub
           /\ o.name = SubSeq(path, (CHOOSE k \in last : TRUE) + 1, Len(path))

\* a reference with a subpath and a revision that contains "/"
C12_Witness ==
    /\ Resolved
    /\ resolved.appPath
          = <<"h", "/", "h", "/", "h", "/", "h", "@", "h", "/", "h">>
    /\ resolved.out.reference = <<"h", "/", "h">>
    /\ resolved.out.cloneDir
          = <<"/", "d", "/", "h", "/", "h", "/", "h", "-", "h", "-", "h">>

\* the command the attachment path of a descriptor resolves to is in the tree
Resolves(place) == commandPath(place) \in DOMAIN tree

\* the call of linkAppCmd this step makes, if any, is on descriptor d
LinkAppCmdOn(d) ==
    \/ LinkCmdOf(d)
    \/ LinkSubCmd /\ Head(link.stack).appCmd = d

\* the descriptors linkAppCmd is called on: the declared ones and the
\* children LinkSubCmd is about to link
CalledCmds ==
    CmdDescs \cup (IF link.stack = << >> THEN {} ELSE {Head(link.stack).appCmd})

\* C13: linkAppCmd on an attachment path that resolves to a runnable command
\* sets the "can't attach app command to runnable command" Error, adds no
\* node and installs no handler, also when the runnable command is a leaf
\* grafted earlier by the same app or by another one.
C13_RunnableTarget ==
    [][\A d \in CalledCmds :
          (/\ Resolves(d.PlaceCommandUnder)
           /\ LET n == tree[commandPath(d.PlaceCommandUnder)]
              IN  n.Run \/ n.RunE # << >>
           /\ LinkAppCmdOn(d))
          => /\ app'[link.i].Error = "can't attach app command to runnable command"
             /\ tree' = tree]_vars

\* app 2 was refused under the leaf command app 1 had grafted
C13_Witness ==
    /\ mode = "link"
    /\ app[1].Error = NoError
    /\ app[2].Error = "can't attach app command to runnable command"
    /\ link.named = <<RootName, "foo">>
    /\ link.named \in DOMAIN tree
    /\ tree[link.named].owner = 1
    /\ tree[link.named].RunE = <<Layer("exec", 1, "")>>
    /\ Cardinality(DOMAIN tree) = 4

\* the attachment node of d has a direct child with the name of d
Collides(d) ==
    /\ Resolves(d.PlaceCommandUnder)
    /\ (commandPath(d.PlaceCommandUnder) \o <<d.Use[1]>>) \in DOMAIN tree

\* C14: linkAppCmd sets the "app command already exists" Error and leaves
\* the tree unchanged whenever the attachment node has a direct child whose
\* name is the first word of the descriptor's Use, whether that child is a
\* legacy command or one grafted earlier, by this manifest or by another app.
C14_NameCollision ==
    [][\A d \in CalledCmds :
          (Collides(d) /\ LinkAppCmdOn(d))
          => /\ app'[link.i].Error = "app command already exists"
             /\ tree' = tree]_vars

\* an app was refused a command named like the one another app had grafted
C14_Witness ==
    /\ mode = "link"
    /\ \E i \in Inst :
          /\ app[i].Error = "app command already exists"
          /\ link.named = <<"foo">>
          /\ <<RootName, "foo">> \in DOMAIN tree
          /\ tree[<<RootName, "foo">>].owner \notin {0, i}

\* C15 as stated: a descriptor named scaffold, attached to the root or
\* nested as a child of a newly grafted command, always fails with the
\* "already exists" Error while the tree holds the legacy ignite scaffold.
C15_ScaffoldAlwaysCollides ==
    [][\A d \in CalledCmds :
          (/\ d.Use[1] = "scaffold"
           /\ ScaffoldPath \in DOMAIN tree
           /\ LinkAppCmdOn(d)
           /\ \/ commandPath(d.PlaceCommandUnder) = RootPath
              \/ LinkSubCmd)
          => app'[link.i].Error = "app command already exists"]_vars

\* C15, amended: a call of linkAppCmd on a descriptor named scaffold sets the
\* "already exists" Error exactly when its attachment node is in the tree,
\* is not runnable and has a direct child named scaffold: always at the
\* root, which holds the legacy ignite scaffold, and under a newly grafted
\* parent only when an earlier child of that parent is named scaffold.
C15_ScaffoldCollidesWithSibling ==
    [][\A d \in CalledCmds :
          (d.Use[1] = "scaffold" /\ LinkAppCmdOn(d))
          => /\ (app'[link.i].Error = "app command already exists")
                   <=> (/\ Collides(d)
                        /\ LET n == tree[commandPath(d.PlaceCommandUnder)]
                           IN  ~n.Run /\ n.RunE = << >>)
             /\ commandPath(d.PlaceCommandUnder) = RootPath
                   => /\ app'[link.i].Error = "app command already exists"
                      /\ tree' = tree]_vars

\* a command named scaffold was grafted under the new command foo
C15_Witness ==
    /\ mode = "link"
    /\ ScaffoldPath \in DOMAIN tree
    /\ <<RootName, "foo", "scaffold">> \in DOMAIN tree
    /\ tree[<<RootName, "foo", "scaffold">>].owner # 0
    /\ link.pc = "returned"
    /\ \E i \in Inst : app[i].Error = NoError /\ tree[<<RootName, "foo">>].owner = i

\* C16: linking a command or a hook whose attachment path is the command
\* path of no command of the tree sets the "unable to find command path"
\* Error, which names that path, adds no node and installs no wrapper.
C16_MissingPath ==
    [][/\ \A d \in CalledCmds :
             (~Resolves(d.PlaceCommandUnder) /\ LinkAppCmdOn(d))
             => /\ app'[link.i].Error = "unable to find command path"
                /\ link'.named = commandPath(d.PlaceCommandUnder)
                /\ tree' = tree
       /\ \A h \in HookDescs :
             (~Resolves(h.PlaceHookOn) /\ LinkHookOf(h))
             => /\ app'[link.i].Error = "unable to find command path"
                /\ link'.named = commandPath(h.PlaceHookOn)
                /\ tree' = tree]_vars

\* one app named a missing path in a hook, the other in a command
C16_Witness ==
    /\ mode = "link"
    /\ \A i \in {1, 2} : app[i].Error = "unable to find command path"
    /\ link.linkErrors = <<1, 2>>
    /\ link.named = <<RootName, "unknown">>
    /\ link.n = 2
    /\ DOMAIN tree = {RootPath, ScaffoldPath, ChainPath}
    /\ tree[ChainPath].PreRunE = <<LegacyLayer>>

\* C17: linking a hook whose attachment path resolves to a command that is
\* not runnable sets the "can't attach app hook to non executable command"
\* Error and leaves the handlers of that command, and the tree, unchanged;
\* no call of linkAppHook adds a command.
C17_HookOnDispatch ==
    [][\A h \in HookDescs :
          LinkHookOf(h)
          => /\ DOMAIN tree' = DOMAIN tree
             /\ (/\ Resolves(h.PlaceHookOn)
                 /\ LET n == tree[commandPath(h.PlaceHookOn)]
                    IN  ~n.Run /\ n.RunE = << >>)
                => /\ app'[link.i].Error
                         = "can't attach app hook to non executable command"
                   /\ tree' = tree]_vars

\* a hook of app 2 was refused on the command foo, which app 1 had grafted
\* with children
C17_Witness ==
    /\ mode = "link"
    /\ app[2].Error = "can't attach app hook to non executable command"
    /\ link.named = <<RootName, "foo">>
    /\ <<RootName, "foo">> \in DOMAIN tree
    /\ tree[<<RootName, "foo">>].owner = 1
    /\ tree[<<RootName, "foo">>].RunE = << >>
    /\ tree[<<RootName, "foo">>].PreRunE = << >>

\* linkApps has returned nil
Linked == link.pc = "returned" /\ link.ret = NoError

\* the children of p that were grafted from the same top-level descriptor
OwnChildren(p) ==
    {q \in DOMAIN tree : /\ Len(q) = Len(p) + 1
                          /\ SubSeq(q, 1, Len(p)) = p
                          /\ tree[q].top = tree[p].top}

\* C18: after a successful link, a grafted command whose descriptor has
\* children is not runnable and the children grafted with it are exactly
\* the children its descriptor declares; a grafted command whose descriptor
\* has no child is runnable; every legacy command is where it was and is
\* runnable iff it was.
C18_GraftedShape ==
    (mode = "link" /\ Linked)
    => /\ \A p \in DOMAIN tree :
             tree[p].owner # 0
             => IF tree[p].kids # << >>
                THEN /\ ~tree[p].Run /\ tree[p].RunE = << >>
                     /\ {q[Len(q)] : q \in OwnChildren(p)}
                           = {tree[p].kids[k] : k \in 1..Len(tree[p].kids)}
                     /\ Cardinality(OwnChildren(p)) = Len(tree[p].kids)
                ELSE /\ tree[p].RunE # << >>
                     /\ OwnChildren(p) = {}
       /\ \A p \in {RootPath, ScaffoldPath, ChainPath} :
             p \in DOMAIN tree /\ tree[p].owner = 0
       /\ ~tree[RootPath].Run /\ tree[RootPath].RunE = << >>
       /\ ~tree[ScaffoldPath].Run /\ tree[ScaffoldPath].RunE = << >>
       /\ tree[ChainPath].Run \/ tree[ChainPath].RunE # << >>

\* a command with two children, one of them with a child of its own, was
\* grafted under scaffold, and the legacy chain got a hook
C18_Witness ==
    /\ mode = "link" /\ Linked
    /\ tree[ChainPath].PostRunE # <<LegacyLayer>>
    /\ {ScaffoldPath \o <<"foo">>, ScaffoldPath \o <<"foo", "bar">>,
        ScaffoldPath \o <<"foo", "scaffold">>,
        ScaffoldPath \o <<"foo", "scaffold", "baz">>} \subseteq DOMAIN tree

\* a command has been executed
Executed == mode = "exec" /\ exec.done

\* the calls of the trace that are calls of one of the given kinds
CallsOf(kinds) == SelectSeq(exec.trace, LAMBDA ev : ev.call \in kinds)

\* a leaf command grafted by an app, with no hook on it, has been executed
GraftedLeafRun ==
    /\ Executed
    /\ tree[exec.cmd].owner # 0
    /\ tree[exec.cmd].PreRunE = << >>

\* Execute was called once, by the app that owns the command, with the Use
\* and the path of the command, the arguments, the command line and the
\* With of the app, and the command returned what Execute returned
ExecutedOnce ==
    /\ Len(CallsOf({"Execute"})) = 1
    /\ Len(exec.trace) = 1
    /\ exec.trace[1].app = tree[exec.cmd].owner
    /\ exec.trace[1].cmd
         = [Use    |-> tree[exec.cmd].Use,
            Path   |-> exec.cmd,
            Args   |-> exec.args,
            OsArgs |-> exec.cmd \o exec.args,
            With   |-> <<"with", tree[exec.cmd].owner>>]
    /\ exec.ret = IF <<"Execute", 0>> \in exec.fails THEN "Execute" ELSE NoError

\* C19 as stated: executing a grafted leaf command calls Execute of the
\* owning app exactly once, with the command's Use and path, the arguments,
\* the OS arguments and the With of the app, and returns the error Execute
\* returned.
C19_ExecuteOnce == GraftedLeafRun => ExecutedOnce

\* C19, amended: that holds when the context of the command is not cancelled
\* and newChainWithHomeFlags succeeds or fails with ErrGoModNotFound; when
\* it fails with another error, Execute is not called and the command
\* returns that error; when the context is cancelled first, the command
\* returns the error of the context and Execute was called once at most.
C19_ExecuteUnlessChainFails ==
    GraftedLeafRun
    => IF exec.cancel # "none"
           THEN /\ exec.ret = "context canceled"
                /\ Len(CallsOf({"Execute"})) <= 1
       ELSE IF exec.chainErr = "other"
           THEN /\ exec.trace = << >>
                /\ exec.ret = "newChainWithHomeFlags"
       ELSE ExecutedOnce

\* a grafted command was run outside a chain, with an argument, and its
\* Execute failed
C19_Witness ==
    /\ GraftedLeafRun
    /\ exec.chainErr = "ErrGoModNotFound" /\ exec.cancel = "none"
    /\ exec.args = <<"x">>
    /\ Len(exec.cmd) = 3
    /\ ExecutedOnce
    /\ exec.ret = "Execute"

\* the pre-phase calls of the execution, and the ones the command was
\* given: its own PreRunE, then one ExecuteHookPre for every hook, in the
\* order the hooks were linked
PreDone ==
    [k \in 1..Len(CallsOf({"PreRunE", "ExecuteHookPre"})) |->
        LET ev == CallsOf({"PreRunE", "ExecuteHookPre"})[k]
        IN  <<ev.call, ev.app, ev.hook>>]
PreDue ==
    LET h == tree[exec.cmd].PreRunE
    IN  [k \in 1..Len(h) |->
            IF h[k].kind = "legacy" THEN <<"PreRunE", 0, "">>
            ELSE <<"ExecuteHookPre", h[k].app, h[k].hook>>]

\* C20: executing a command with hooks runs the original pre-phase of the
\* command first and then ExecuteHookPre of every hook in the order the
\* hooks were registered by linkApps; the calls stop at the first that fails.
C20_PreOrder ==
    (Executed /\ tree[exec.cmd].PreRunE # << >>)
    => /\ Len(PreDone) <= Len(PreDue)
       /\ PreDone = SubSeq(PreDue, 1, Len(PreDone))
       /\ \A k \in 1..Len(PreDone) :
             exec.trace[k].call \in {"PreRunE", "ExecuteHookPre"}
       /\ (/\ exec.chainErr # "other"
           /\ \A f \in exec.fails : f[1] \notin {"PreRunE", "ExecuteHookPre"})
          => PreDone = PreDue
       /\ \A k \in 2..Len(tree[exec.cmd].PreRunE) :
             tree[exec.cmd].PreRunE[k].kind = "hook"

\* the legacy command chain, with a hook of app 1 and then one of app 2,
\* was executed to its end
C20_Witness ==
    /\ Executed
    /\ exec.cmd = ChainPath
    /\ exec.ret = NoError
    /\ PreDone = <<<<"PreRunE", 0, "">>, <<"ExecuteHookPre", 1, "h2">>,
                   <<"ExecuteHookPre", 2, "h1">>>>
    /\ Len(exec.trace) > 3

\* the call of event k of the trace returned an error
Failed(k) == <<exec.trace[k].call, exec.trace[k].no>> \in exec.fails

\* the calls of the pre-phase
PreCalls == {"PreRunE", "ExecuteHookPre"}

\* C21: when a step of the pre-phase fails (the command's own PreRunE or the
\* ExecuteHookPre of a hook) the command returns that error and nothing is
\* called after the step: no ExecuteHookPre of a later hook, no body, no
\* ExecuteHookPost.
C21_PreFailureAborts ==
    Executed
    => \A k \in 1..Len(exec.trace) :
          (exec.trace[k].call \in PreCalls /\ Failed(k))
          => /\ k = Len(exec.trace)
             /\ exec.ret = exec.trace[k].call
             /\ \A j \in 1..Len(exec.trace) :
                   exec.trace[j].call \in PreCalls

\* the ExecuteHookPre of the first of two hooks of `ignite scaffold chain`
\* failed
C21_Witness ==
    /\ Executed
    /\ exec.cmd = ChainPath
    /\ Len(tree[ChainPath].PreRunE) = 3
    /\ Len(exec.trace) = 2
    /\ exec.trace[2].call = "ExecuteHookPre" /\ Failed(2)
    /\ exec.ret = "ExecuteHookPre"

\* a legacy command with hooks has been executed and its pre-phase succeeded
HookedLegacyRun ==
    /\ Executed
    /\ tree[exec.cmd].owner = 0
    /\ Len(tree[exec.cmd].RunE) > 0
    /\ tree[exec.cmd].RunE[Len(tree[exec.cmd].RunE)].kind = "hook"
    /\ exec.chainErr # "other"
    /\ \A f \in exec.fails : f[1] \notin PreCalls

\* C22: a runnable command with hooks, executed with all pre-phases
\* succeeding, has its original body called exactly once, whether the body
\* was registered as RunE or as plain Run.
C22_BodyOnce == HookedLegacyRun => Len(CallsOf({"Run", "RunE"})) = 1

\* the number of hooks on the executed command
NumHooks == HookNo(tree[exec.cmd].PreRunE, Len(tree[exec.cmd].PreRunE))

\* a command with hooks has been executed and its pre-phase succeeded
HookedRun ==
    /\ Executed
    /\ NumHooks > 0
    /\ exec.chainErr # "other"
    /\ \A f \in exec.fails : f[1] \notin PreCalls

\* the error the original body of the executed command returned: the error
\* of the legacy RunE or of Execute, or the error of the context of a
\* grafted command that was cancelled
BodyError ==
    IF tree[exec.cmd].owner # 0 /\ exec.cancel # "none"
        THEN "context canceled"
    ELSE IF \E k \in 1..Len(exec.trace) :
                exec.trace[k].call \in {"RunE", "Execute"} /\ Failed(k)
        THEN IF tree[exec.cmd].owner # 0 THEN "Execute" ELSE "RunE"
    ELSE NoError

\* the positions of the trace where ExecuteHookCleanUp of hook number no
\* was called
CleanUpsOf(no) ==
    {k \in 1..Len(exec.trace) :
        exec.trace[k].call = "ExecuteHookCleanUp" /\ exec.trace[k].no = no}

\* C23: when the original body returns an error, ExecuteHookCleanUp of every
\* hook of the command is called, after the body, before the command
\* returns; no ExecuteHookPost is called; the command returns the error of
\* the body.
C23_BodyFailure ==
    (HookedRun /\ BodyError # NoError)
    => /\ exec.ret = BodyError
       /\ CallsOf({"ExecuteHookPost", "PostRunE"}) = << >>
       /\ \A no \in 1..NumHooks :
             /\ Cardinality(CleanUpsOf(no)) = 1
             /\ \A k \in CleanUpsOf(no), j \in 1..Len(exec.trace) :
                   exec.trace[j].call \in PreCalls \cup {"RunE", "Execute"}
                   => j < k

\* the RunE of `ignite scaffold chain`, with two hooks, failed
C23_Witness ==
    /\ HookedRun
    /\ exec.cmd = ChainPath
    /\ NumHooks = 2
    /\ BodyError = "RunE"
    /\ exec.ret = "RunE"
    /\ Len(exec.trace) = 6
    /\ exec.trace[5].call = "ExecuteHookCleanUp" /\ exec.trace[5].no = 1
    /\ exec.trace[6].call = "ExecuteHookCleanUp" /\ exec.trace[6].no = 2

\* the positions of the trace where a call was made for hook number no
PosOf(call, no) ==
    {k \in 1..Len(exec.trace) :
        exec.trace[k].call = call /\ exec.trace[k].no = no}

\* every position of P is before every position of Q
Before(P, Q) == \A k \in P, j \in Q : k < j

\* the positions of the calls that are due before any ExecuteHookPost: the
\* pre-phases, the body and the command's own post-phase
BeforePosts ==
    {k \in 1..Len(exec.trace) :
        exec.trace[k].call \in PreCalls \cup {"Run", "RunE", "Execute",
                                              "PostRunE"}}

\* C24: in a successful execution of a command with hooks h1..hn, linked in
\* that order, every hook has one ExecuteHookPre, then one ExecuteHookPost,
\* then one ExecuteHookCleanUp; every ExecuteHookPost comes after the last
\* ExecuteHookPre, after the body and after the command's own post-phase;
\* the post and the cleanup of hi come before the post and the cleanup of hj
\* when i < j.
C24_PostOrder ==
    (HookedRun /\ exec.ret = NoError)
    => /\ \A no \in 1..NumHooks :
             /\ Cardinality(PosOf("ExecuteHookPre", no)) = 1
             /\ Cardinality(PosOf("ExecuteHookPost", no)) = 1
             /\ Cardinality(PosOf("ExecuteHookCleanUp", no)) = 1
             /\ Before(PosOf("ExecuteHookPre", no), PosOf("ExecuteHookPost", no))
             /\ Before(PosOf("ExecuteHookPost", no),
                       PosOf("ExecuteHookCleanUp", no))
             /\ Before(BeforePosts, PosOf("ExecuteHookPost", no))
       /\ \A i, j \in 1..NumHooks :
             i < j => Before(PosOf("ExecuteHookCleanUp", i),
                             PosOf("ExecuteHookPost", j))
       /\ ~tree[exec.cmd].Run => Len(CallsOf({"RunE", "Execute"})) = 1
       /\ tree[exec.cmd].PostRunE[1].kind = "legacy"
          => Len(CallsOf({"PostRunE"})) = 1

\* `ignite scaffold chain`, with a hook of app 1 and then a hook of app 2,
\* was executed with success
C24_Witness ==
    /\ HookedRun
    /\ exec.ret = NoError
    /\ exec.cmd = ChainPath
    /\ ~tree[ChainPath].Run
    /\ NumHooks = 2
    /\ [k \in 1..Len(exec.trace) |->
            <<exec.trace[k].call, exec.trace[k].app>>]
       = <<<<"PreRunE", 0>>, <<"ExecuteHookPre", 1>>, <<"ExecuteHookPre", 2>>,
           <<"RunE", 0>>, <<"PostRunE", 0>>,
           <<"ExecuteHookPost", 1>>, <<"ExecuteHookCleanUp", 1>>,
           <<"ExecuteHookPost", 2>>, <<"ExecuteHookCleanUp", 2>>>>

\* C25: in every execution of a command with hooks, every hook whose
\* ExecuteHookPre was called (and returned without error) has its
\* ExecuteHookCleanUp called before the command returns, whatever the exit
\* path: success, failure of the body, of a post-phase or of the pre-phase
\* of a hook linked later.
C25_CleanUpAlways ==
    Executed
    => \A no \in 1..NumHooks :
          (/\ PosOf("ExecuteHookPre", no) # {}
           /\ <<"ExecuteHookPre", no>> \notin exec.fails)
          => /\ PosOf("ExecuteHookCleanUp", no) # {}
             /\ Before(PosOf("ExecuteHookPre", no),
                       PosOf("ExecuteHookCleanUp", no))

\* the calls of a trace, without their arguments
CallList(tr) == [k \in 1..Len(tr) |-> <<tr[k].call, tr[k].no>>]

\* the same execution with every ExecuteHookCleanUp succeeding
CleanUpsOk ==
    execute([exec EXCEPT
                !.fails = {f \in @ : f[1] # "ExecuteHookCleanUp"}])

\* C26: a failure of ExecuteHookCleanUp never changes the result of the
\* command: the command returns what it returns when the cleanup succeeds,
\* after the body has failed and after the post-phase alike, and the
\* cleanups of the other hooks are still called.
C26_CleanUpErrorIgnored ==
    Executed
    => /\ exec.ret = CleanUpsOk.err
       /\ CallList(exec.trace) = CallList(CleanUpsOk.trace)

\* the cleanup of the first of two hooks failed in the post-phase, the
\* cleanup of the second hook was called after it and the command succeeded
C26_Witness ==
    /\ HookedRun
    /\ NumHooks = 2
    /\ <<"ExecuteHookCleanUp", 1>> \in exec.fails
    /\ PosOf("ExecuteHookCleanUp", 1) # {}
    /\ Before(PosOf("ExecuteHookCleanUp", 1), PosOf("ExecuteHookCleanUp", 2))
    /\ PosOf("ExecuteHookCleanUp", 2) # {}
    /\ exec.ret = NoError

\* linkApps has returned
LinkDone == Linking /\ link.pc \in {"returned", "failed"}

\* the apps of the list that have Error set, in the order of the list
RECURSIVE FailedFrom(_)
FailedFrom(i) ==
    IF i > NumInst THEN << >>
    ELSE (IF app[i].Error # NoError THEN <<i>> ELSE << >>) \o FailedFrom(i + 1)

\* app i has grafted a command or a hook on the tree
Grafted(i) ==
    \E p \in DOMAIN tree :
       \/ tree[p].owner = i
       \/ \E k \in 1..Len(tree[p].PreRunE) : tree[p].PreRunE[k].app = i

\* C27: linkApps goes through every app of its list, whether an earlier one
\* failed or not; it returns nil exactly when no app of the list has Error
\* set after linking, and otherwise one error that names the path and the
\* error of every app that has Error set, those that failed to load and
\* those that failed to link.
C27_LinkResult ==
    LinkDone
    => /\ link.i = NumInst + 1
       /\ link.ret = NoError <=> \A i \in Inst : app[i].Error = NoError
       /\ link.ret # NoError => link.ret = "fail to link"
       /\ link.msg = [k \in 1..Len(FailedFrom(1)) |->
                         <<AppPath(FailedFrom(1)[k]),
                           app[FailedFrom(1)[k]].Error>>]

\* app 1 failed to load, app 2 was linked after it and grafted something,
\* and linkApps returned the error that names app 1 only
C27_Witness ==
    /\ LinkDone
    /\ link.ret = "fail to link"
    /\ link.msg = <<<<LocalApp, "connecting">>>>
    /\ app[2].Error = NoError
    /\ Grafted(2)

\* app i was loaded by Load without error: it has a client and an Interface
LoadedOk(i) == app[i].Interface /\ app[i].client.started

\* C28: when an app of the list passed to linkApps fails, KillClient has
\* been called on every app of that list that was loaded, before linkApps
\* returns, so that no app of the list keeps a subprocess it owns.
C28_UnloadsList ==
    (Linking /\ link.pc = "failed")
    => \A i \in Inst : LoadedOk(i) => (killed[i] /\ proc[i] # "alive")

\* what app i has grafted on tree t: the commands it owns and the hook
\* wrappers it has installed
GraftsOf(t, i) ==
    {<<p, 0>> : p \in {q \in DOMAIN t : t[q].owner = i}}
    \cup UNION {{<<p, k>> : k \in {j \in 1..Len(t[p].PreRunE) :
                                       t[p].PreRunE[j].app = i}} :
                p \in DOMAIN t}

\* no step of linkApps grafts anything for app i or changes its Error
NothingMore(i) ==
    /\ GraftsOf(tree', i) = GraftsOf(tree, i)
    /\ app'[i].Error = app[i].Error
    /\ i = link.i => link'.named = link.named

\* C29: once the Error of an app is set during linking, nothing more is
\* grafted for that app: no wrapper for a later hook, no command, and its
\* Error keeps the first failure.
C29_NothingAfterError ==
    [][\A i \in Inst :
          (Linking /\ app[i].Error # NoError) => NothingMore(i)]_vars

\* the blocking steps C30 names: fetch, build, connect, Manifest, Execute
\* and the hook calls
Bounded == {"Clone", "ModTidy", "Build", "Client", "Manifest", "Execute",
            "ExecuteHookPre", "ExecuteHookPost", "ExecuteHookCleanUp"}

\* C30: cancelling the context passed to load aborts the fetch, build,
\* connect or Manifest step in flight, and cancelling the context of a
\* command aborts the Execute or hook call in flight: no such step that
\* returns after the cancellation has run to its end.
C30_CancelAborts ==
    mode = "cancel"
    => \A k \in 1..Len(calling.log) :
          (calling.log[k].call \in Bounded /\ calling.log[k].cancelled)
          => calling.log[k].outcome # "ok"

\* C31: the Manifest RPC of a loaded App is issued once, by load, which
\* caches the manifest; linkApps and what follows use the cached manifest
\* and issue no Manifest call.
C31_ManifestOnce ==
    Linking => \A i \in Inst : app[i].manifest # "nil" => i \notin link.asked

\* the binary of source tree f is stale: it is missing, or older than the
\* most recent of the other files
Stale(f) == f.binTime = 0 \/ f.binTime < f.srcTime

\* instance i takes the fetch and build stage of load, with no Error before
PrepareStep(i) ==
    /\ mode = "Load"
    /\ pc[i] = "load" /\ pc'[i] # "load"
    /\ app[i].Error = NoError

\* the stage has called fetch, build
Fetched(i) == calls'[i].fetch = calls[i].fetch + 1
Built(i)   == calls'[i].build = calls[i].build + 1

\* the stage has failed
PrepareFailed(i) == app'[i].Error \in {"cloning", "go mod tidy", "go build"}

\* the decisions of the stage but the one on the build of a local app
PrepareRules(i) ==
    LET f == fsys[app[i].Path]
    IN  /\ Fetched(i) <=> ~f.src
        /\ app'[i].Error = "cloning" => ~Built(i)
        /\ (~IsLocalPath(app[i].Path) /\ app'[i].Error # "cloning")
           => (Built(i) <=> ~BinaryPresent(f))
        /\ PrepareFailed(i)
           => /\ pc'[i] = "done"
              /\ app'[i].client = NoClient
              /\ proc' = proc /\ cache' = cache
        /\ ~PrepareFailed(i) => app'[i].Error = NoError

\* C32: in load, with no Error before, fetch runs exactly when the source
\* path is absent; a local app is built exactly when its binary is stale; a
\* remote app is built exactly when its binary is absent, even when source
\* files are newer than the binary; after a failure of fetch or build no
\* later step of load runs.
C32_FetchBuildRules ==
    [][\A i \in Inst :
          PrepareStep(i)
          => /\ PrepareRules(i)
             /\ IsLocalPath(app[i].Path)
                => (Built(i) <=> Stale(fsys[app[i].Path]))]_vars

\* C33: outdatedBinary reports true whenever the binary is missing from the
\* source tree or older than the most recent of the other files, whatever
\* the source directory holds, a directory with no other file included.
\* Stated of the local apps load has asked outdatedBinary about: when load
\* goes on without a build, the binary is not stale.
C33_OutdatedBinary ==
    mode = "Load"
    => \A i \in Inst :
          (/\ pc[i] = "checkCache"
           /\ app[i].Path = LocalApp
           /\ calls[i].build = 0)
          => ~Stale(fsys[app[i].Path])

\* Update takes its turn on app i
UpdateStep(i) == mode = "Update" /\ pc[i] = "done" /\ pc'[i] = "updated"

\* C34: clean removes the clone directory only of a remote app without
\* Error; for a local app or an app with Error set it removes nothing and
\* returns nil, and Update leaves the app and its files as they are: no
\* removal, no fetch.
C34_CleanRemoteOnly ==
    [][\A i \in Inst :
          UpdateStep(i)
          => IF app[i].Error # NoError \/ HasSlashPrefix(app[i].Path)
             THEN /\ fsys' = fsys
                  /\ app' = app
                  /\ loadPc' = loadPc
             ELSE \/ loadPc' = "failed" /\ app' = app /\ fsys' = fsys
                  \/ /\ loadPc' = loadPc
                     /\ fsys'[app[i].Path]
                          = (IF app'[i].Error = NoError THEN FsUnbuilt
                             ELSE FsAbsent)
                     /\ app'[i].Error \in {NoError, "cloning"}]_vars

\* Update has gone over a local app whose files are there and has removed
\* and cloned again a remote app
C34_Witness ==
    /\ mode = "Update"
    /\ loadPc = "returned"
    /\ cfgs = <<LocalApp, RemoteApp>>
    /\ fsys[LocalApp] = FsBuilt
    /\ app[2].Error = NoError
    /\ fsys[RemoteApp] = FsUnbuilt

\* C35: once every instance that loaded the reference has called
\* KillClient, no subprocess launched by any of them is still running.
C35_NoSubprocessLeft ==
    (mode = "procs" /\ \A i \in Inst : killed[i])
    => \A k \in Inst : proc[k] # "alive"

\* what an instance that is host has besides the cache entry
HostState(a) ==
    /\ a.isSharedHost
    /\ a.client.started
    /\ a.manifest = "shared"
    /\ a.Error = NoError

\* C36: in every reachable state an instance with isHost = true also has
\* isSharedHost = true, a client handle and a cached manifest, has finished
\* load without Error, and a cache entry exists for its reference.
C36_HostInvariant ==
    mode = "procs"
    => \A i \in Inst :
          app[i].isHost
          => /\ HostState(app[i])
             /\ pc[i] = "done"
             /\ cache[app[i].Path] # 0

\* C37: two valid remote references that differ in repository path or in
\* revision never resolve to the same clone directory.
C37_CloneDirInjective ==
    mode = "clone"
    => \A i \in Inst, j \in Inst :
          (/\ pc[i] = "done" /\ pc[j] = "done"
           /\ app[i].Error = NoError /\ app[j].Error = NoError
           /\ \/ RepoOf(cfgs[i]) # RepoOf(cfgs[j])
              \/ RevOf(cfgs[i]) # RevOf(cfgs[j]))
          => app[i].cloneDir # app[j].cloneDir

\* the commands app i has grafted
OwnedBy(t, i) == {p \in DOMAIN t : t[p].owner = i}

\* the commands that get a hook layer in the step
Wrapped == {p \in DOMAIN tree : tree'[p].RunE # tree[p].RunE}

\* C38: linkApps processes the apps in list order and, for each app, links
\* all hooks before any command: a hook may target a legacy command or a
\* command grafted by an earlier app; a hook whose command is not in the
\* tree, as one only its own manifest declares, fails with "unable to find
\* command path", and the commands of that app are then not added.
C38_HooksBeforeCmds ==
    [][mode = "link"
       => /\ link'.i >= link.i
          /\ link.pc = "cmds" => link'.pc \in {"cmds", "loop"}
          /\ link.pc = "hooks" => OwnedBy(tree, link.i) = {}
          /\ \A p \in Wrapped :
                /\ link.pc = "hooks"
                /\ tree'[p].RunE = Append(tree[p].RunE,
                                          Layer("hook", link.i,
                                                tree'[p].RunE[Len(tree'[p].RunE)].hook))
                /\ tree[p].owner < link.i
          /\ \A p \in DOMAIN tree' \ DOMAIN tree :
                /\ link.pc = "cmds"
                /\ tree'[p].owner = link.i
                /\ app[link.i].Error = NoError
          /\ \A i \in Inst : app[i].Error # NoError => app'[i].Error # NoError
          /\ \A hook \in OfferedHooks :
                (/\ LinkHookOf(hook)
                 /\ findCommandByPath(tree, RootPath,
                                      commandPath(hook.PlaceHookOn)) = NoNode)
                => /\ app'[link.i].Error = "unable to find command path"
                   /\ link'.named = commandPath(hook.PlaceHookOn)
                   /\ tree' = tree]_vars

\* the second app has hooked a command the first app grafted
C38_Witness ==
    /\ mode = "link"
    /\ LinkDone
    /\ <<RootName, "foo">> \in OwnedBy(tree, 1)
    /\ \E k \in DOMAIN tree[<<RootName, "foo">>].RunE :
          /\ tree[<<RootName, "foo">>].RunE[k].kind = "hook"
          /\ tree[<<RootName, "foo">>].RunE[k].app = 2

\* C39: when linking a top-level command descriptor fails, the command
\* tree is as it was before that descriptor was processed: no node of the
\* descriptor, parent or child, is left in the tree.
C39_FailedCmdLeavesNothing ==
    (/\ mode = "link"
     /\ link.pc = "cmds"
     /\ app[link.i].Error # NoError)
    => \A p \in OwnedBy(tree, link.i) : tree[p].top # link.n

\* C40: in one execution of a hooked command ExecuteHookCleanUp is called
\* at most once for every hook on the command, whatever fails: the body,
\* the post-phases or the cleanups.
C40_CleanUpAtMostOnce ==
    Executed
    => \A no \in 1..NumHooks :
          Cardinality(PosOf("ExecuteHookCleanUp", no)) <= 1

\* the body of a command with two hooks failed, the cleanup of the first
\* hook failed too, and each hook was cleaned up once
C40_Witness ==
    /\ HookedRun
    /\ NumHooks = 2
    /\ exec.fails = {<<"RunE", 0>>, <<"ExecuteHookCleanUp", 1>>}
    /\ exec.ret = "RunE"
    /\ \A no \in 1..2 : Cardinality(PosOf("ExecuteHookCleanUp", no)) = 1

====
